---- MODULE Spec2Model ----
(***************************************************************************)
(* Model of the VertexHub CLI (vertexhub-ai/vertexhub-cli).                *)
(*                                                                         *)
(* A JavaScript string is a sequence of characters.  A character is a     *)
(* one-letter TLA+ string, or the name of a control character ("ESC",     *)
(* "TAB", ...) whose code point Code gives.  An optional value (a result  *)
(* that may be null, an environment variable that may be unset) is a      *)
(* record [ok, val].                                                       *)
(***************************************************************************)
EXTENDS Integers, Sequences, FiniteSets, TLC

VARIABLES
    entry,        \* which entry-point file runs: "cli" (the hardened file) or "bin" (bin/vertexhub.js)
    envPort,      \* process.env.VERTEXHUB_PORT: [ok |-> FALSE] when unset
    pc,           \* position of the invocation
    sanitized,    \* the value sanitizePort returned at module load
    PROXY_PORT,   \* const PROXY_PORT
    PROXY_URL,    \* const PROXY_URL
    strIn,        \* a text handed to sanitizeForTerminal
    strOnce,      \* sanitizeForTerminal(strIn)
    strTwice,     \* sanitizeForTerminal(sanitizeForTerminal(strIn))
    configDir,        \* whether CLAUDE_CONFIG_DIR exists
    settingsFile,     \* text of CLAUDE_SETTINGS_FILE, null when the file does not exist
    settingsMode,     \* its permission bits: "none", "0600" or "0644"
    claudeJsonFile,   \* text of CLAUDE_JSON_FILE, null when the file does not exist
    claudeJsonMode,   \* its permission bits
    cfgBefore,        \* <<settingsFile, claudeJsonFile>> as the last configureClaudeSettings found them
    loadedSettings,   \* local `settings` of the last run after the plain-object check
    loadedClaudeJson, \* local `claudeJson` of the last run after the plain-object check
    cfgThrew,         \* whether the last run raised
    cfgRuns,          \* number of runs of configureClaudeSettings
    wroteClaudeJson,  \* whether the last run wrote CLAUDE_JSON_FILE
    argv,             \* process.argv.slice(2)
    remote,           \* local isRemote of cmdLogin, FALSE until isRemoteSession() is called
    terminal,         \* the lines written to the terminal, [stream, text] each
    spawned,          \* the processes spawned, [prog, args, env, detached] each
    shellCmds,        \* the command lines given to execSync
    probes,           \* the results of the isProxyRunning calls, in order
    attempt,          \* loop variable i of the startup wait of cmdStart
    childProcesses,   \* const childProcesses: [pid] each, pid FALSE when the spawn failed
    proxyEvents,      \* the events of the proxy process the CLI has handled, in order
    sigterms,         \* number of SIGTERMs cleanup sent to a tracked process group
    fetched,          \* local `status` of cmdStatus / `models` of cmdModels
    childExit,        \* how the awaited accounts / claude process ended, "none" before
    signalled,        \* whether a SIGTERM / SIGINT handler ended the CLI
    probeMs,          \* the durations (ms) a health probe of this run may take
    waited,           \* ms elapsed in the startup wait of cmdStart
    called,           \* the prober function called on its own: "none" before the call
    requests,         \* the fetches that call issued, [path, outcome] each
    returned,         \* how that call completed: [done, threw, val]
    exitCode          \* exit code of the CLI, -1 while it runs

portVars == <<entry, envPort, sanitized, PROXY_PORT, PROXY_URL>>
termVars == <<strIn, strOnce, strTwice>>

cfgVars == <<configDir, settingsFile, settingsMode, claudeJsonFile, claudeJsonMode, cfgBefore,
             loadedSettings, loadedClaudeJson, cfgThrew, cfgRuns, wroteClaudeJson>>

cliVars == <<argv, remote, terminal, spawned, shellCmds, probes, attempt, childProcesses,
             proxyEvents, sigterms, fetched, childExit, signalled, probeMs, waited,
             called, requests, returned, exitCode>>

vars == <<pc, portVars, termVars, cfgVars, cliVars>>

--------------------------------------------------------------------------
(* Strings *)

null == [ok |-> FALSE, val |-> <<>>]
Some(v) == [ok |-> TRUE, val |-> v]

Digits == <<"0", "1", "2", "3", "4", "5", "6", "7", "8", "9">>

IsDigit(c) == \E i \in 1..10 : Digits[i] = c

DigitVal(c) == (CHOOSE i \in 1..10 : Digits[i] = c) - 1

\* code points of the named control characters and of the non-ASCII samples
Code(c) ==
    CASE c = "NUL" -> 0
      [] c = "BEL" -> 7
      [] c = "BS"  -> 8
      [] c = "TAB" -> 9
      [] c = "LF"  -> 10
      [] c = "VT"  -> 11
      [] c = "FF"  -> 12
      [] c = "CR"  -> 13
      [] c = "SO"  -> 14
      [] c = "ESC" -> 27
      [] c = "US"  -> 31
      [] c = " "   -> 32
      [] c = "A"   -> 65
      [] c = "~"   -> 126
      [] c = "DEL" -> 127
      [] c = "PAD" -> 128
      [] c = "NBSP" -> 160
      [] c = "e_acute" -> 233
      [] OTHER -> 64        \* any other character of the model is printable ASCII

\* WhiteSpace and LineTerminator of ECMAScript, as trim() and parseInt() skip them
IsWhiteSpace(c) == Code(c) \in {9, 10, 11, 12, 13, 32, 160}

RECURSIVE TrimStart(_)
TrimStart(s) ==
    IF s # <<>> /\ IsWhiteSpace(Head(s)) THEN TrimStart(Tail(s)) ELSE s

RECURSIVE TrimEnd(_)
TrimEnd(s) ==
    IF s # <<>> /\ IsWhiteSpace(s[Len(s)]) THEN TrimEnd(SubSeq(s, 1, Len(s) - 1)) ELSE s

trim(s) == TrimEnd(TrimStart(s))

--------------------------------------------------------------------------
(* Number <-> text conversions used by sanitizePort *)

RECURSIVE DigitPrefix(_)
DigitPrefix(s) ==
    IF s # <<>> /\ IsDigit(Head(s)) THEN <<Head(s)>> \o DigitPrefix(Tail(s)) ELSE <<>>

RECURSIVE DigitsValue(_)
DigitsValue(ds) ==
    IF ds = <<>> THEN 0
    ELSE 10 * DigitsValue(SubSeq(ds, 1, Len(ds) - 1)) + DigitVal(ds[Len(ds)])

\* parseInt(string, 10): skip white space, take a sign, then the longest run of digits
parseInt(s) ==
    LET t    == TrimStart(s)
        neg  == t # <<>> /\ Head(t) = "-"
        rest == IF t # <<>> /\ Head(t) \in {"-", "+"} THEN Tail(t) ELSE t
        ds   == DigitPrefix(rest)
    IN  IF ds = <<>> THEN [nan |-> TRUE, val |-> 0]
        ELSE [nan |-> FALSE, val |-> IF neg THEN 0 - DigitsValue(ds) ELSE DigitsValue(ds)]

RECURSIVE NatToString(_)
NatToString(n) ==
    IF n < 10 THEN <<Digits[n + 1]>>
    ELSE NatToString(n \div 10) \o <<Digits[(n % 10) + 1]>>

\* String(num) for an integer (String(-0) is "0")
String(n) == IF n < 0 THEN <<"-">> \o NatToString(0 - n) ELSE NatToString(n)

--------------------------------------------------------------------------
(* Security helpers *)

DEFAULT_PORT == <<"8", "0", "9", "0">>

\* the bug a mutant plants: the range test is dropped
sanitizePort_norange(port) ==
    IF ~port.ok \/ port.val = <<>> THEN null
    ELSE LET num == parseInt(port.val)
         IN  IF num.nan \/ String(num.val) # trim(port.val)
             THEN null
             ELSE Some(String(num.val))

\* the bug a mutant plants: the raw text is returned instead of String(num)
sanitizePort_raw(port) ==
    IF ~port.ok \/ port.val = <<>> THEN null
    ELSE LET num == parseInt(port.val)
         IN  IF num.nan \/ num.val < 1 \/ num.val > 65535 \/ String(num.val) # trim(port.val)
             THEN null
             ELSE Some(port.val)

sanitizePort(port) ==
    IF ~port.ok \/ port.val = <<>> THEN null
    ELSE LET num == parseInt(port.val)
         IN  IF num.nan \/ num.val < 1 \/ num.val > 65535 \/ String(num.val) # trim(port.val)
             THEN null
             ELSE Some(String(num.val))

\* the character class /[\x00-\x08\x0b\x0c\x0e-\x1f\x7f]/ of sanitizeForTerminal
TerminalControlCodes == (0..8) \cup {11, 12} \cup (14..31) \cup {127}

\* the character class /[\x00-\x1f\x7f]/ cmdModels applies to a model id
ModelIdControlCodes == (0..31) \cup {127}

\* str.replace(/[class]/g, ''): every character of the class is deleted
RECURSIVE RemoveCodes(_, _)
RemoveCodes(codes, s) ==
    IF s = <<>> THEN <<>>
    ELSE IF Code(Head(s)) \in codes THEN RemoveCodes(codes, Tail(s))
    ELSE <<Head(s)>> \o RemoveCodes(codes, Tail(s))

\* the bug a mutant plants: the wider class of cmdModels, which also deletes TAB, LF and CR
sanitizeForTerminal_wide(str) == RemoveCodes(ModelIdControlCodes, str)

sanitizeForTerminal(str) == RemoveCodes(TerminalControlCodes, str)

\* `http://127.0.0.1:${PROXY_PORT}` and `http://localhost:${PROXY_PORT}`
UrlOf(host, port) == <<"http://", host, ":">> \o port

--------------------------------------------------------------------------
(* JSON values, JSON.parse and JSON.stringify                              *)
(*                                                                         *)
(* A value is a record [jt, jv].  An object holds its members as a sequence *)
(* of <<key, value>> pairs in insertion order, keys distinct.  The text   *)
(* of a file is the syntax tree of what is written in it: the same shape, *)
(* except that an object may repeat a key, or Garbage when it is not JSON.*)

JUndefined == [jt |-> "undefined", jv |-> 0]
JNull == [jt |-> "null", jv |-> 0]
JBool(b) == [jt |-> "bool", jv |-> b]
JNum(n) == [jt |-> "num", jv |-> n]
JStr(s) == [jt |-> "str", jv |-> s]
JArr(items) == [jt |-> "arr", jv |-> items]
JObj(members) == [jt |-> "obj", jv |-> members]
Garbage == [jt |-> "garbage", jv |-> 0]

EmptyObject == JObj(<<>>)

Keys(obj) == {obj.jv[i][1] : i \in 1..Len(obj.jv)}

HasKey(obj, k) == obj.jt = "obj" /\ k \in Keys(obj)

\* obj[k] (undefined when the object has no such property)
Get(obj, k) ==
    IF HasKey(obj, k)
    THEN obj.jv[CHOOSE i \in 1..Len(obj.jv) : obj.jv[i][1] = k][2]
    ELSE JUndefined

\* members with members[k] = val: an existing key keeps its place, a new one goes last
SetMember(members, k, val) ==
    IF \E i \in 1..Len(members) : members[i][1] = k
    THEN [i \in 1..Len(members) |-> IF members[i][1] = k THEN <<k, val>> ELSE members[i]]
    ELSE Append(members, <<k, val>>)

RECURSIVE SetMembers(_, _)
SetMembers(members, more) ==
    IF more = <<>> THEN members
    ELSE SetMembers(SetMember(members, more[1][1], more[1][2]), Tail(more))

\* JSON.parse of a well-formed text: a repeated key keeps its first place and its last value
RECURSIVE ParseTree(_)
ParseTree(tree) ==
    CASE tree.jt = "arr" -> JArr([i \in 1..Len(tree.jv) |-> ParseTree(tree.jv[i])])
      [] tree.jt = "obj" ->
            JObj(SetMembers(<<>>, [i \in 1..Len(tree.jv) |-> <<tree.jv[i][1], ParseTree(tree.jv[i][2])>>]))
      [] OTHER -> tree

\* JSON.parse(text): [threw |-> TRUE] stands for the SyntaxError
JSONparse(text) ==
    IF text.jt = "garbage" THEN [threw |-> TRUE, val |-> JUndefined]
    ELSE [threw |-> FALSE, val |-> ParseTree(text)]

RECURSIVE DropUndefined(_)
DropUndefined(members) ==
    IF members = <<>> THEN <<>>
    ELSE IF members[1][2].jt = "undefined" THEN DropUndefined(Tail(members))
    ELSE <<members[1]>> \o DropUndefined(Tail(members))

\* JSON.stringify(value, null, 2): undefined members are left out, undefined items become null
RECURSIVE JSONstringify(_)
JSONstringify(val) ==
    CASE val.jt = "arr" ->
            JArr([i \in 1..Len(val.jv) |->
                    IF val.jv[i].jt = "undefined" THEN JNull ELSE JSONstringify(val.jv[i])])
      [] val.jt = "obj" ->
            LET kept == DropUndefined(val.jv)
            IN  JObj([i \in 1..Len(kept) |-> <<kept[i][1], JSONstringify(kept[i][2])>>])
      [] OTHER -> val

\* !x
Falsy(x) ==
    \/ x.jt \in {"undefined", "null"}
    \/ x.jt = "bool" /\ ~x.jv
    \/ x.jt = "num" /\ x.jv = 0
    \/ x.jt = "str" /\ x.jv = <<>>

TypeOf(x) ==
    CASE x.jt \in {"obj", "arr", "null"} -> "object"
      [] x.jt = "bool" -> "boolean"
      [] x.jt = "num" -> "number"
      [] x.jt = "str" -> "string"
      [] OTHER -> "undefined"

IsArray(x) == x.jt = "arr"

\* the own enumerable properties {...x} copies: members of an object, items of an
\* array and characters of a string under their indices, nothing for the rest
SpreadOf(x) ==
    CASE x.jt = "obj" -> x.jv
      [] x.jt = "arr" -> [i \in 1..Len(x.jv) |-> <<Digits[i], x.jv[i]>>]
      [] x.jt = "str" -> [i \in 1..Len(x.jv) |-> <<Digits[i], JStr(<<x.jv[i]>>)>>]
      [] OTHER -> <<>>

--------------------------------------------------------------------------
(* configureClaudeSettings *)

\* the seven keys configureClaudeSettings puts into settings.env
ManagedEnv(url) ==
    << <<"ANTHROPIC_AUTH_TOKEN", JStr(<<"vertexhub-proxy">>)>>,
       <<"ANTHROPIC_BASE_URL", JStr(url)>>,
       <<"ANTHROPIC_MODEL", JStr(<<"claude-opus-4-6-thinking">>)>>,
       <<"ANTHROPIC_DEFAULT_OPUS_MODEL", JStr(<<"claude-opus-4-6-thinking">>)>>,
       <<"ANTHROPIC_DEFAULT_SONNET_MODEL", JStr(<<"claude-sonnet-4-5-thinking">>)>>,
       <<"ANTHROPIC_DEFAULT_HAIKU_MODEL", JStr(<<"claude-sonnet-4-5">>)>>,
       <<"CLAUDE_CODE_SUBAGENT_MODEL", JStr(<<"claude-sonnet-4-5-thinking">>)>> >>

\* let x = {}; if (existsSync(f)) { try { x = JSON.parse(readFileSync(f)) } catch { warn } }
LoadJsonFile(file) ==
    IF ~file.ok THEN EmptyObject
    ELSE LET r == JSONparse(file.val)
         IN  IF r.threw THEN EmptyObject ELSE r.val

\* the bug a mutant plants: the `=== null` test is forgotten (typeof null is 'object')
EnsurePlainObject_nonull(x) ==
    IF TypeOf(x) # "object" \/ IsArray(x) THEN EmptyObject ELSE x

\* if (typeof x !== 'object' || x === null || Array.isArray(x)) x = {}
EnsurePlainObject(x) ==
    IF TypeOf(x) # "object" \/ x.jt = "null" \/ IsArray(x) THEN EmptyObject ELSE x

\* the bug a mutant plants: the previous env is replaced, not merged into
MergedEnv_replace(env, url) == JObj(ManagedEnv(url))

\* { ...(settings.env || {}), ANTHROPIC_AUTH_TOKEN: ..., ... }
MergedEnv(env, url) ==
    JObj(SetMembers(SpreadOf(IF Falsy(env) THEN EmptyObject ELSE env), ManagedEnv(url)))

\* x.k = v: sets the member of an object; a named property of an array is not
\* part of its JSON form; null and primitives raise a TypeError (strict mode)
RaisesOnProp(x) == x.jt \notin {"obj", "arr"}

AssignProp(x, k, val) == IF x.jt = "obj" THEN JObj(SetMember(x.jv, k, val)) ELSE x

\* the bug a mutant plants: the flag is set only when the field is absent
NeedsOnboarding_absent(claudeJson) == ~HasKey(claudeJson, "hasCompletedOnboarding")

\* the bug a mutant plants: the flag is written on every run, set or not
NeedsOnboarding_always(claudeJson) == TRUE

\* !claudeJson.hasCompletedOnboarding
NeedsOnboarding(claudeJson) == Falsy(Get(claudeJson, "hasCompletedOnboarding"))

\* the mode a file has after writeFileSecure: writeFileSync's mode counts only for
\* a new file, and a failing chmodSync is ignored
ModeAfterWrite(old, chmodOk) == IF chmodOk \/ old = "none" THEN "0600" ELSE old

\* the body of configureClaudeSettings, as the values it computes
ConfigureResult(sFile, cFile, url) ==
    LET settings   == EnsurePlainObject(LoadJsonFile(sFile))
        sRaises    == RaisesOnProp(settings)
        newSettings == AssignProp(settings, "env", MergedEnv(Get(settings, "env"), url))
        claudeJson == EnsurePlainObject(LoadJsonFile(cFile))
        cNeeds     == NeedsOnboarding(claudeJson)
        cRaises    == cNeeds /\ RaisesOnProp(claudeJson)
    IN  [ settings    |-> settings,
          writeS      |-> ~sRaises,
          sText       |-> JSONstringify(newSettings),
          claudeJson  |-> IF sRaises THEN JUndefined ELSE claudeJson,
          writeC      |-> ~sRaises /\ cNeeds /\ ~cRaises,
          cText       |-> JSONstringify(AssignProp(claudeJson, "hasCompletedOnboarding", JBool(TRUE))),
          threw       |-> sRaises \/ cRaises ]

MaxCfgRuns == 2

configureClaudeSettings ==
    \E r \in {ConfigureResult(settingsFile, claudeJsonFile, PROXY_URL)} :
        \E chmodS, chmodC \in BOOLEAN :
            /\ configDir' = TRUE
            /\ cfgBefore' = <<settingsFile, claudeJsonFile>>
            /\ loadedSettings' = r.settings
            /\ loadedClaudeJson' = r.claudeJson
            /\ cfgThrew' = r.threw
            /\ cfgRuns' = cfgRuns + 1
            /\ IF r.writeS
               THEN /\ settingsFile' = Some(r.sText)
                    /\ settingsMode' = ModeAfterWrite(settingsMode, chmodS)
               ELSE UNCHANGED <<settingsFile, settingsMode>>
            /\ IF r.writeC
               THEN /\ claudeJsonFile' = Some(r.cText)
                    /\ claudeJsonMode' = ModeAfterWrite(claudeJsonMode, chmodC)
               ELSE UNCHANGED <<claudeJsonFile, claudeJsonMode>>
            /\ wroteClaudeJson' = r.writeC

--------------------------------------------------------------------------
(* Terminal output, template literals and property reads *)

Line(stream, text) == [stream |-> stream, text |-> text]

\* console.log(text)
Say(text) == Line("stdout", text)

\* function log / ok / warn / err
log(msg) == Line("stdout", <<"c.cyan", "[VertexHub]", "c.reset", " ">> \o msg)
ok(msg) == Line("stdout", <<"c.green", "check", "c.reset", " ">> \o msg)
warn(msg) == Line("stdout", <<"c.yellow", "warning", "c.reset", " ">> \o msg)
err(msg) == Line("stderr", <<"c.red", "cross", "c.reset", " ">> \o msg)

\* what an uncaught TypeError leaves on the terminal
Uncaught == Line("stderr", <<"TypeError: Cannot read properties of null">>)

Nullish(x) == x.jt \in {"null", "undefined"}

\* a || b
Or(a, b) == IF Falsy(a) THEN b ELSE a

\* x.k of a value that is not null or undefined
GetProp(x, k) == IF x.jt = "obj" THEN Get(x, k) ELSE JUndefined

\* x?.k
OptProp(x, k) == IF Nullish(x) THEN JUndefined ELSE GetProp(x, k)

\* array.join(',') of the texts of the items
RECURSIVE JoinTexts(_)
JoinTexts(texts) ==
    IF texts = <<>> THEN <<>>
    ELSE IF Len(texts) = 1 THEN texts[1]
    ELSE texts[1] \o <<",">> \o JoinTexts(Tail(texts))

\* String(x) and `${x}` of a JSON value
RECURSIVE ToText(_)
ToText(x) ==
    CASE x.jt = "str" -> x.jv
      [] x.jt = "num" -> String(x.jv)
      [] x.jt = "bool" -> IF x.jv THEN <<"true">> ELSE <<"false">>
      [] x.jt = "null" -> <<"null">>
      [] x.jt = "obj" -> <<"[object Object]">>
      [] x.jt = "arr" ->
            JoinTexts([i \in 1..Len(x.jv) |-> IF Nullish(x.jv[i]) THEN <<>> ELSE ToText(x.jv[i])])
      [] OTHER -> <<"undefined">>

NameMaxLen == 50

\* str.substring(0, n)
Substring0(str, n) == SubSeq(str, 1, IF Len(str) < n THEN Len(str) ELSE n)

HelpLines == << Say(<<"VertexHub CLI: Usage, Commands, Environment: VERTEXHUB_PORT (default: ">>
                    \o DEFAULT_PORT \o <<"), First time?">>) >>

--------------------------------------------------------------------------
(* Processes and exits *)

NodeBin == <<"nodeBin">>
AccountsScript == <<"PROXY_DIR/src/cli/accounts.js">>

Spawn(prog, args, env, detached) ==
    [prog |-> prog, args |-> args, env |-> env, detached |-> detached]

\* the kills cleanup() performs: one per tracked child that has a pid and is not
\* marked killed (the CLI never calls child.kill(), so none is marked)
RECURSIVE CleanupKills(_)
CleanupKills(children) ==
    IF children = <<>> THEN 0
    ELSE (IF children[1].pid THEN 1 ELSE 0) + CleanupKills(Tail(children))

\* the bug a mutant plants: no 'exit' handler, the tracked children are left alone
Terminate_nocleanup(code, lines) ==
    /\ pc' = "exited"
    /\ exitCode' = code
    /\ terminal' = terminal \o lines
    /\ UNCHANGED sigterms

\* the process ends with this code, by process.exit or by running to completion;
\* the 'exit' handler runs cleanup
Terminate(code, lines) ==
    /\ pc' = "exited"
    /\ exitCode' = code
    /\ terminal' = terminal \o lines
    /\ sigterms' = sigterms + CleanupKills(childProcesses)

\* the invocation goes on to its next suspension point
Continue(next, lines) ==
    /\ pc' = next
    /\ terminal' = terminal \o lines
    /\ UNCHANGED <<exitCode, sigterms>>

\* the bug a mutant plants: only a missing argument selects help, an empty one does not
Command_nodefault == IF argv = <<>> THEN <<"help">> ELSE argv[1]

\* const command = process.argv[2] || 'help'
Command == IF argv = <<>> \/ argv[1] = <<>> THEN <<"help">> ELSE argv[1]

\* the outcomes of validateProxyDir, requireNodeBin and the accounts-script test:
\* the error lines of the first check that fails, <<>> when all pass
ProxyDirErrors(dirOk, indexOk) ==
    IF ~dirOk
    THEN <<err(<<"Proxy directory not found: PROXY_DIR">>),
           err(<<"Clone the antigravity-proxy repo next to this project.">>)>>
    ELSE IF ~indexOk
    THEN <<err(<<"Proxy entry point not found: PROXY_DIR/src/index.js">>),
           err(<<"The antigravity-proxy directory appears corrupted.">>)>>
    ELSE <<>>

NodeBinErrors(nodeOk) ==
    IF ~nodeOk
    THEN <<err(<<"Node.js not found. Install Node.js 18+ first.">>),
           err(<<"  curl -o- https://raw.githubusercontent.com/nvm-sh/nvm/v0.40.1/install.sh | bash">>)>>
    ELSE <<>>

\* getNodeBin(): `which node` first, then the NVM shell when ~/.nvm exists
NodeChoices == {"path", "nvm", "nvm-missing", "missing"}

NodeFound(node) == node \in {"path", "nvm"}

NodeLookupCmds(node) ==
    <<<<"which node">>>> \o (IF node \in {"nvm", "nvm-missing"}
                             THEN <<<<"bash -c 'source nvm.sh && which node'">>>>
                             ELSE <<>>)

ScriptErrors(scriptOk) ==
    IF ~scriptOk THEN <<err(<<"Accounts script not found: ">> \o AccountsScript)>> ELSE <<>>

--------------------------------------------------------------------------
(* Bounded inputs *)

MaxPortLen == 5

PortAlphabet == {"0", "3", "5", "6", " ", "-", "a"}

RECURSIVE StringsUpTo(_, _)
StringsUpTo(alphabet, n) ==
    IF n = 0 THEN {<<>>}
    ELSE LET shorter == StringsUpTo(alphabet, n - 1)
         IN  shorter \cup {Append(s, c) : s \in {x \in shorter : Len(x) = n - 1}, c \in alphabet}

\* the values the test battery gives VERTEXHUB_PORT, and a few more shapes
TestPorts ==
    { <<"8", "0", "9", "0">>, <<"0">>, <<"9", "9", "9", "9", "9">>, <<"a", "b", "c">>,
      <<"8", "0", "8", "0", ";", " ", "r", "m", " ", "-", "r", "f", " ", "/">>,
      <<"-", "1">>, <<"0", "8", "0", "8", "0">>, <<"6", "5", "5", "3", "5">>, <<"1">>,
      <<"3", ".", "1", "4">>, <<" ", "8", "0", " ">>, <<"+", "8", "0">>,
      <<"TAB", "8", "0", "LF">>, <<"8", "0", "NBSP">>, <<"6", "5", "5", "3", "6">>,
      <<"8", "e", "3">>, <<"ESC", "8", "0">>, <<"$", "(", "i", "d", ")">> }

MaxTermLen == 3

TermAlphabet ==
    {"NUL", "BS", "TAB", "LF", "VT", "FF", "CR", "SO", "ESC", "US", " ", "A", "~", "DEL",
     "PAD", "e_acute"}

\* texts of the two configuration files
MaxEnvMembers == 2

\* the member lists of at most n members, a key possibly written twice
MemberLists(keys, values, n) == UNION {[1..k -> keys \X values] : k \in 0..n}

EnvTexts ==
    {JObj(m) : m \in MemberLists({"FOO", "ANTHROPIC_BASE_URL"}, {JStr(<<"old">>), JNum(5)},
                                 MaxEnvMembers)}
        \cup {JNull, JBool(FALSE), JBool(TRUE), JNum(0), JNum(5), JStr(<<>>), JStr(<<"a", "b">>),
              JArr(<<JNum(1), JNum(2)>>)}

NonObjectTexts ==
    {Garbage, JNull, JNum(5), JStr(<<"x">>), JBool(TRUE), JArr(<<>>),
     JArr(<<JNum(1), JNum(2), JNum(3)>>)}

Theme == <<"theme", JStr(<<"dark">>)>>

SettingsTexts ==
    NonObjectTexts
        \cup {JObj(<<>>), JObj(<<Theme>>)}
        \cup {JObj(<< <<"env", e>> >>) : e \in EnvTexts}
        \cup {JObj(<<Theme, <<"env", e>> >>) : e \in EnvTexts}
        \cup {JObj(<< <<"env", e>>, Theme>>) : e \in EnvTexts}
        \cup {JObj(<< <<"env", JNum(5)>>, Theme, <<"env", JObj(<< <<"FOO", JStr(<<"old">>)>> >>)>> >>)}

FlagValues == {JBool(FALSE), JBool(TRUE), JNull, JNum(0), JStr(<<>>), JStr(<<"yes">>)}

Flag(f) == <<"hasCompletedOnboarding", f>>

UserId == <<"userID", JStr(<<"u1">>)>>

ClaudeJsonTexts ==
    NonObjectTexts
        \cup {JObj(<<>>), JObj(<<UserId>>)}
        \cup {JObj(<<Flag(f)>>) : f \in FlagValues}
        \cup {JObj(<<UserId, Flag(f)>>) : f \in FlagValues}
        \cup {JObj(<<Flag(f), UserId>>) : f \in FlagValues}
        \cup {JObj(<<Flag(JBool(FALSE)), Flag(JBool(TRUE))>>)}

\* command lines
MaxArgs == 3

Verbs ==
    {<<"login">>, <<"start">>, <<"status">>, <<"accounts">>, <<"models">>, <<"help">>,
     <<"--help">>, <<"-h">>}

UnknownCommands ==
    {<<"hackercommand">>, <<"$(echo hacked)">>, <<"x", "ESC", "[", "2", "J">>,
     <<"BEL", "TAB", "o", "k", "DEL">>, [i \in 1..64 |-> "x"], <<"help | cat">>}

ArgLists ==
    UNION {[1..k -> {<<"add">>, <<"list">>, <<"rm">>, <<"DROP">>}] : k \in 0..MaxArgs}
        \cup {<<<<"add">>, <<"rm">>, <<"list">>, <<"DROP">>>>,
              <<<<"remove">>, <<"verify">>>>, <<<<"--no-browser">>>>, <<<<"ADD">>, <<"list ">>>>}

ArgvInputs ==
    {<<>>, <<<<>>>>, <<<<"help">>, <<"--verbose">>>>, <<<<"login">>, <<"list">>>>}
        \cup {<<v>> : v \in Verbs \cup UnknownCommands}
        \cup {<<<<"accounts">>>> \o rest : rest \in ArgLists}

HealthBodies ==
    {JObj(<<>>), JNull, JNum(5),
     JObj(<< <<"version", JStr(<<"1.0">>)>>, <<"strategy", JStr(<<"round-robin">>)>> >>),
     JObj(<< <<"version", JStr(<<"ESC", "[", "2", "J">>)>> >>),
     JObj(<< <<"strategy", JStr(<<"BEL", "s">>)>> >>)}

Account(email, status) == JObj(<< <<"email", email>>, <<"status", status>> >>)

LimitsBodies ==
    {JArr(<<>>), JNull, JNum(5),
     JArr(<<Account(JStr(<<"a@b.c">>), JStr(<<"active">>))>>),
     JArr(<<Account(JStr(<<"ESC", "[", "2", "J">>), JStr(<<"ok">>))>>),
     JArr(<<Account(JStr(<<"a@b.c">>), JStr(<<"ESC", "[", "2", "J">>))>>),
     JArr(<<JObj(<< <<"id", JStr(<<"TAB", "ESC", "7">>)>> >>), JNum(7)>>),
     JArr(<<Account(JNum(5), JNull), JNull>>),
     Account(JStr(<<"solo@b.c">>), JStr(<<>>))}

ModelsBodies ==
    {JNull, JObj(<<>>), JObj(<< <<"data", JNum(5)>> >>), JObj(<< <<"data", JArr(<<>>)>> >>),
     JObj(<< <<"data", JArr(<<JObj(<< <<"id", JStr(<<"claude-opus">>)>> >>),
                              JObj(<< <<"id", JStr(<<"m", "ESC", "[", "TAB", "LF", "1">>)>> >>)>>)>> >>),
     JObj(<< <<"data", JArr(<<JObj(<< <<"id", JNum(5)>> >>), JObj(<<>>), JStr(<<"x">>)>>)>> >>),
     JObj(<< <<"data", JArr(<<JObj(<< <<"id", JStr(<<"a">>)>> >>), JNull>>)>> >>)}

\* what a fetch may give: a rejection (connection refused, or the AbortSignal
\* timeout fired), an answer that is not ok, an ok answer whose body is not JSON,
\* an ok answer with a JSON body
Outcomes(bodies) ==
    {[kind |-> "error", status |-> 0, body |-> JNull], [kind |-> "timeout", status |-> 0, body |-> JNull],
     [kind |-> "http", status |-> 500, body |-> JNull], [kind |-> "badjson", status |-> 200, body |-> JNull]}
        \cup {[kind |-> "ok", status |-> 200, body |-> b] : b \in bodies}

CliSettings ==
    {null, Some(Garbage),
     Some(JObj(<<Theme, <<"env", JObj(<< <<"FOO", JStr(<<"old">>)>>,
                                         <<"ANTHROPIC_BASE_URL", JStr(<<"http://old">>)>> >>)>> >>))}

CfgPorts == {Some(<<"6", "5", "5", "3", "5">>), Some(<<"8", "0", ";">>)}

--------------------------------------------------------------------------
(* Module load: the configuration constants *)

TermIdle == strIn = <<>> /\ strOnce = <<>> /\ strTwice = <<>>

\* no configuration run yet
CfgFresh ==
    /\ cfgBefore = <<null, null>>
    /\ loadedSettings = JUndefined
    /\ loadedClaudeJson = JUndefined
    /\ cfgThrew = FALSE
    /\ cfgRuns = 0
    /\ wroteClaudeJson = FALSE

\* nothing printed, spawned or probed yet
CliFresh ==
    /\ terminal = <<>>
    /\ spawned = <<>>
    /\ shellCmds = <<>>
    /\ probes = <<>>
    /\ attempt = 0
    /\ childProcesses = <<>>
    /\ proxyEvents = <<>>
    /\ sigterms = 0
    /\ fetched = JUndefined
    /\ childExit = "none"
    /\ signalled = FALSE
    /\ waited = 0
    /\ called = "none"
    /\ requests = <<>>
    /\ returned = [done |-> FALSE, threw |-> FALSE, val |-> JUndefined]
    /\ exitCode = -1

CliIdle == argv = <<>> /\ remote = FALSE /\ probeMs = {0} /\ CliFresh

CfgIdle ==
    /\ configDir = FALSE
    /\ settingsFile = null
    /\ settingsMode = "none"
    /\ claudeJsonFile = null
    /\ claudeJsonMode = "none"
    /\ CfgFresh

InitPort ==
    /\ entry \in {"cli", "bin"}
    /\ envPort \in {null} \cup {Some(s) : s \in StringsUpTo(PortAlphabet, MaxPortLen)
                                               \cup TestPorts}
    /\ pc = "load"
    /\ sanitized = null
    /\ PROXY_PORT = <<>>
    /\ PROXY_URL = <<>>
    /\ TermIdle
    /\ CfgIdle
    /\ CliIdle

\* const PROXY_PORT = sanitizePort(process.env.VERTEXHUB_PORT) || DEFAULT_PORT
LoadConfig ==
    /\ pc = "load"
    /\ entry = "cli"
    /\ LET r == sanitizePort(envPort)
           p == IF r.ok /\ r.val # <<>> THEN r.val ELSE DEFAULT_PORT
       IN  /\ sanitized' = r
           /\ PROXY_PORT' = p
           /\ PROXY_URL' = UrlOf("127.0.0.1", p)
    /\ pc' = "main"
    /\ UNCHANGED <<entry, envPort, termVars, cfgVars, cliVars>>

\* bin/vertexhub.js: const PROXY_PORT = process.env.VERTEXHUB_PORT || '8090'
LoadConfigBin ==
    /\ pc = "load"
    /\ entry = "bin"
    /\ LET p == IF envPort.ok /\ envPort.val # <<>> THEN envPort.val ELSE DEFAULT_PORT
       IN  /\ PROXY_PORT' = p
           /\ PROXY_URL' = UrlOf("localhost", p)
    /\ pc' = "main"
    /\ UNCHANGED <<entry, envPort, sanitized, termVars, cfgVars, cliVars>>

NextPort == LoadConfig \/ LoadConfigBin

SpecPort == InitPort /\ [][NextPort]_vars

--------------------------------------------------------------------------
(* Claims about sanitizePort and the effective port *)

NoWhiteSpaceIn(s) == \A i \in 1..Len(s) : ~IsWhiteSpace(s[i])

\* s with its surrounding white space removed, found by position
Surrounded(s) ==
    LET solid == {i \in 1..Len(s) : ~IsWhiteSpace(s[i])}
    IN  IF solid = {} THEN <<>>
        ELSE SubSeq(s, CHOOSE i \in solid : \A j \in solid : i <= j,
                       CHOOSE i \in solid : \A j \in solid : i >= j)

\* a <= b for two digit strings of the same length
DigitsLeq(a, b) ==
    \/ a = b
    \/ \E k \in 1..Len(a) :
          /\ \A j \in 1..(k - 1) : a[j] = b[j]
          /\ DigitVal(a[k]) < DigitVal(b[k])

\* t is the decimal numeral, without leading zeros, of an integer in 1..65535
CanonicalPortText(t) ==
    /\ Len(t) \in 1..5
    /\ \A i \in 1..Len(t) : IsDigit(t[i])
    /\ t[1] # "0"
    /\ Len(t) = 5 => DigitsLeq(t, <<"6", "5", "5", "3", "5">>)

Loaded == pc = "main" /\ entry = "cli"

AcceptedExamples == { <<"8", "0", "9", "0">>, <<"1">>, <<"6", "5", "5", "3", "5">> }

RejectedExamples ==
    { <<"0">>, <<"9", "9", "9", "9", "9">>, <<"a", "b", "c">>, <<"-", "1">>,
      <<"0", "8", "0", "8", "0">>, <<"3", ".", "1", "4">>, <<>>,
      <<"8", "0", "8", "0", ";", " ", "r", "m", " ", "-", "r", "f", " ", "/">> }

\* C1: sanitizePort(s) returns a value exactly when s, with its surrounding
\* white space trimmed, is the canonical decimal numeral of an integer in
\* 1..65535, and the value is that numeral; "8090", "1", "65535" are accepted
\* and "0", "99999", "abc", "-1", "08080", "3.14", "" and "8080; rm -rf /"
\* are rejected.
C1_SanitizePortContract ==
    Loaded =>
        /\ sanitized.ok <=> (envPort.ok /\ CanonicalPortText(Surrounded(envPort.val)))
        /\ sanitized.ok => sanitized.val = Surrounded(envPort.val)
        /\ (envPort.ok /\ envPort.val \in AcceptedExamples) => sanitized = Some(envPort.val)
        /\ (envPort.ok /\ envPort.val \in RejectedExamples) => ~sanitized.ok

C1_Witness ==
    /\ Loaded
    /\ envPort = Some(<<"6", "5", "5", "3", "5">>)
    /\ sanitized = Some(<<"6", "5", "5", "3", "5">>)

\* C2 as stated: a value is returned only for text that is exactly its own
\* canonical decimal form, so never for text that contains white space.
C2_OnlyExactCanonicalText ==
    (Loaded /\ sanitized.ok) => (envPort.val = sanitized.val /\ NoWhiteSpaceIn(envPort.val))

\* C2, amended: sanitizePort rejects every input whose text, once leading and
\* trailing white space is removed, is not exactly its canonical decimal form;
\* an input that differs from the canonical form only by leading or trailing
\* white space is accepted, and the value returned is the canonical numeral
\* with that white space removed, so a returned Port Value contains no white
\* space.
C2_CanonicalAfterTrim ==
    Loaded =>
        /\ sanitized.ok =>
              /\ NoWhiteSpaceIn(sanitized.val)
              /\ \E i \in 0..Len(envPort.val) : \E j \in i..Len(envPort.val) :
                    /\ SubSeq(envPort.val, i + 1, j) = sanitized.val
                    /\ \A k \in (1..i) \cup ((j + 1)..Len(envPort.val)) : IsWhiteSpace(envPort.val[k])
        /\ (envPort.ok /\ ~NoWhiteSpaceIn(envPort.val) /\ CanonicalPortText(Surrounded(envPort.val)))
              => sanitized.ok

C2_Witness ==
    /\ Loaded
    /\ envPort = Some(<<" ", "8", "0", " ">>)
    /\ sanitized = Some(<<"8", "0">>)

\* C3: whatever VERTEXHUB_PORT holds, the effective port of the CLI entry
\* point is the canonical numeral of an integer in 1..65535 or the default
\* "8090", so only the digits 0-9 reach the proxy URL, the PORT environment
\* and the fuser command.
C3_EffectivePortIsDigits ==
    pc = "main" =>
        /\ PROXY_PORT = DEFAULT_PORT \/ CanonicalPortText(PROXY_PORT)
        /\ \A i \in 1..Len(PROXY_PORT) : IsDigit(PROXY_PORT[i])
        /\ \A i \in 4..Len(PROXY_URL) : IsDigit(PROXY_URL[i])

--------------------------------------------------------------------------
(* sanitizeForTerminal applied to a text, and to its own result *)

InitTerm ==
    /\ pc = "raw"
    /\ strIn \in StringsUpTo(TermAlphabet, MaxTermLen)
    /\ strOnce = <<>>
    /\ strTwice = <<>>
    /\ entry = "cli"
    /\ envPort = null
    /\ sanitized = null
    /\ PROXY_PORT = DEFAULT_PORT
    /\ PROXY_URL = UrlOf("127.0.0.1", DEFAULT_PORT)
    /\ CfgIdle
    /\ CliIdle

Sanitize ==
    /\ pc = "raw"
    /\ strOnce' = sanitizeForTerminal(strIn)
    /\ pc' = "once"
    /\ UNCHANGED <<strIn, strTwice, portVars, cfgVars, cliVars>>

SanitizeAgain ==
    /\ pc = "once"
    /\ strTwice' = sanitizeForTerminal(strOnce)
    /\ pc' = "twice"
    /\ UNCHANGED <<strIn, strOnce, portVars, cfgVars, cliVars>>

NextTerm == Sanitize \/ SanitizeAgain

SpecTerm == InitTerm /\ [][NextTerm]_vars

\* the code points the claim lists: 0x00-0x08, 0x0B-0x0C, 0x0E-0x1F and 0x7F
ClaimedControlCodes ==
    {0, 1, 2, 3, 4, 5, 6, 7, 8, 11, 12, 14, 15, 16, 17, 18, 19, 20, 21, 22, 23, 24, 25, 26, 27,
     28, 29, 30, 31, 127}

KeptByClaim(c) == Code(c) \notin ClaimedControlCodes

\* C6: sanitizeForTerminal returns its input with exactly the characters
\* 0x00-0x08, 0x0B-0x0C, 0x0E-0x1F and 0x7F deleted and every other character
\* (printable ASCII, tab, LF, CR, other Unicode) kept in order; applying it to
\* its own result changes nothing.
C6_StripsExactlyControlChars ==
    /\ pc \in {"once", "twice"} => strOnce = SelectSeq(strIn, KeptByClaim)
    /\ pc = "twice" => strTwice = strOnce

C6_Witness ==
    /\ pc = "twice"
    /\ strIn = <<"ESC", "TAB", "A">>
    /\ strOnce = <<"TAB", "A">>
    /\ strTwice = <<"TAB", "A">>

--------------------------------------------------------------------------
(* configureClaudeSettings run on any content of the two files *)

InitCfg ==
    /\ pc = "load"
    /\ entry = "cli"
    /\ envPort \in CfgPorts
    /\ sanitized = null
    /\ PROXY_PORT = <<>>
    /\ PROXY_URL = <<>>
    /\ TermIdle
    /\ settingsFile \in {null} \cup {Some(t) : t \in SettingsTexts}
    /\ settingsMode = IF settingsFile.ok THEN "0644" ELSE "none"
    /\ configDir \in IF settingsFile.ok THEN {TRUE} ELSE BOOLEAN
    /\ claudeJsonFile \in {null} \cup {Some(t) : t \in ClaudeJsonTexts}
    /\ claudeJsonMode = IF claudeJsonFile.ok THEN "0644" ELSE "none"
    /\ CfgFresh
    /\ CliIdle

Configure ==
    /\ pc = "main"
    /\ cfgRuns < MaxCfgRuns
    /\ configureClaudeSettings
    /\ UNCHANGED <<pc, portVars, termVars, cliVars>>

NextCfg == LoadConfig \/ Configure

SpecCfg == InitCfg /\ [][NextCfg]_vars

\* the file held well-formed JSON that parses to a plain object
HeldPlainObject(file) == file.ok /\ file.val.jt = "obj"

\* what the claim says a load of the file yields
LoadedAsClaimed(file, doc) ==
    /\ doc.jt = "obj"
    /\ file.ok =>
          IF file.val.jt = "garbage" THEN doc = EmptyObject
          ELSE LET parsed == ParseTree(file.val)
               IN  /\ parsed.jt \in {"null", "arr", "bool", "num", "str"} => doc = EmptyObject
                   /\ parsed.jt = "obj" => doc = parsed

\* C8: loading an existing configuration file never raises and yields a plain
\* object: the empty object when the text is unparsable or parses to null, an
\* array or a primitive, the parsed object otherwise; for the settings file and
\* for the onboarding-flag file.
C8_LoadYieldsPlainObject ==
    cfgRuns > 0 =>
        /\ ~cfgThrew
        /\ LoadedAsClaimed(cfgBefore[1], loadedSettings)
        /\ LoadedAsClaimed(cfgBefore[2], loadedClaudeJson)

C8_Witness ==
    /\ cfgRuns > 0
    /\ cfgBefore[1] = Some(JArr(<<JNum(1), JNum(2), JNum(3)>>))
    /\ cfgBefore[2] = Some(JNull)
    /\ loadedSettings = EmptyObject
    /\ loadedClaudeJson = EmptyObject

ManagedKeys ==
    {"ANTHROPIC_AUTH_TOKEN", "ANTHROPIC_BASE_URL", "ANTHROPIC_MODEL",
     "ANTHROPIC_DEFAULT_OPUS_MODEL", "ANTHROPIC_DEFAULT_SONNET_MODEL",
     "ANTHROPIC_DEFAULT_HAIKU_MODEL", "CLAUDE_CODE_SUBAGENT_MODEL"}

\* C9: after configureClaudeSettings ran on a settings file that held a plain
\* object, the written document is a plain object in which every top-level key
\* other than env keeps its value, every key of the previous env map outside
\* the seven managed keys keeps its value, and the seven managed keys hold the
\* CLI's values, ANTHROPIC_BASE_URL being the proxy URL of the effective port.
C9_SettingsMerged ==
    (cfgRuns > 0 /\ HeldPlainObject(cfgBefore[1])) =>
        /\ settingsFile.ok
        /\ ~JSONparse(settingsFile.val).threw
        /\ LET before == ParseTree(cfgBefore[1].val)
               after  == JSONparse(settingsFile.val).val
               envB   == Get(before, "env")
               envA   == Get(after, "env")
           IN  /\ after.jt = "obj"
               /\ \A k \in Keys(before) \ {"env"} : Get(after, k) = Get(before, k)
               /\ envA.jt = "obj"
               /\ envB.jt = "obj" => \A k \in Keys(envB) \ ManagedKeys : Get(envA, k) = Get(envB, k)
               /\ ManagedKeys \subseteq Keys(envA)
               /\ \A i \in 1..7 : Get(envA, ManagedEnv(PROXY_URL)[i][1]) = ManagedEnv(PROXY_URL)[i][2]
               /\ Get(envA, "ANTHROPIC_BASE_URL") = JStr(<<"http://", "127.0.0.1", ":">> \o PROXY_PORT)

C9_Witness ==
    /\ cfgRuns > 0
    /\ cfgBefore[1] = Some(JObj(<<Theme, <<"env", JObj(<< <<"FOO", JStr(<<"old">>)>>,
                                                           <<"ANTHROPIC_BASE_URL", JNum(5)>> >>)>> >>))
    /\ PROXY_PORT = <<"6", "5", "5", "3", "5">>
    /\ Get(Get(ParseTree(settingsFile.val), "env"), "FOO") = JStr(<<"old">>)
    /\ Get(ParseTree(settingsFile.val), "theme") = JStr(<<"dark">>)

OtherKeysKept(before, after) ==
    \A k \in Keys(before) \ {"hasCompletedOnboarding"} : Get(after, k) = Get(before, k)

\* C10 as stated: the flag is set only if the field is absent; when the file
\* already contains the field, with any value, the file is left unchanged; when
\* it is absent it is set to true and the other keys are preserved.
C10_SetOnlyIfAbsent ==
    (cfgRuns > 0 /\ HeldPlainObject(cfgBefore[2])) =>
        IF HasKey(ParseTree(cfgBefore[2].val), "hasCompletedOnboarding")
        THEN claudeJsonFile = cfgBefore[2] /\ ~wroteClaudeJson
        ELSE /\ Get(ParseTree(claudeJsonFile.val), "hasCompletedOnboarding") = JBool(TRUE)
             /\ OtherKeysKept(ParseTree(cfgBefore[2].val), ParseTree(claudeJsonFile.val))

\* C10, amended: configureClaudeSettings sets hasCompletedOnboarding to true
\* whenever the field is absent from the onboarding file or holds a falsy
\* value (false, null, 0, ""), preserving all other keys of the file; whenever
\* the field holds a truthy value the file is not written and stays unchanged.
C10_SetIfAbsentOrFalsy ==
    (cfgRuns > 0 /\ HeldPlainObject(cfgBefore[2])) =>
        LET before == ParseTree(cfgBefore[2].val)
            field  == Get(before, "hasCompletedOnboarding")
            truthy == \/ field = JBool(TRUE)
                      \/ field.jt = "num" /\ field.jv # 0
                      \/ field.jt = "str" /\ field.jv # <<>>
                      \/ field.jt \in {"obj", "arr"}
        IN  IF truthy
            THEN claudeJsonFile = cfgBefore[2] /\ ~wroteClaudeJson
            ELSE /\ wroteClaudeJson
                 /\ Get(ParseTree(claudeJsonFile.val), "hasCompletedOnboarding") = JBool(TRUE)
                 /\ OtherKeysKept(before, ParseTree(claudeJsonFile.val))

C10_Witness ==
    /\ cfgRuns > 0
    /\ cfgBefore[2] = Some(JObj(<<UserId, Flag(JBool(FALSE))>>))
    /\ claudeJsonFile = Some(JObj(<<UserId, Flag(JBool(TRUE))>>))

--------------------------------------------------------------------------
(* One invocation of the CLI *)

Init ==
    /\ pc = "load"
    /\ entry = "cli"
    /\ envPort \in CfgPorts
    /\ sanitized = null
    /\ PROXY_PORT = <<>>
    /\ PROXY_URL = <<>>
    /\ TermIdle
    /\ settingsFile \in CliSettings
    /\ settingsMode = IF settingsFile.ok THEN "0644" ELSE "none"
    /\ configDir = settingsFile.ok
    /\ claudeJsonFile \in {null, Some(JObj(<<UserId, Flag(JBool(FALSE))>>))}
    /\ claudeJsonMode = IF claudeJsonFile.ok THEN "0644" ELSE "none"
    /\ CfgFresh
    /\ argv \in ArgvInputs
    /\ remote = FALSE
    /\ probeMs = {0}
    /\ CliFresh

Untouched ==
    UNCHANGED <<portVars, termVars, called, requests, returned,
                argv, remote, proxyEvents, childExit, signalled, probeMs, waited>>
NoProcs == UNCHANGED <<spawned, shellCmds, childProcesses>>

\* case 'help': case '--help': case '-h': cmdHelp(); break  (then the process ends)
Help ==
    /\ pc = "main"
    /\ Command \in {<<"help">>, <<"--help">>, <<"-h">>}
    /\ Terminate(0, HelpLines)
    /\ Untouched /\ UNCHANGED cfgVars /\ NoProcs /\ UNCHANGED <<probes, attempt, fetched>>

\* default: err(`Unknown command: ${sanitizeForTerminal(command)}`); cmdHelp(); process.exit(1)
UnknownCommand ==
    /\ pc = "main"
    /\ Command \notin Verbs
    /\ Terminate(1, <<err(<<"Unknown command: ">> \o sanitizeForTerminal(Command))>> \o HelpLines)
    /\ Untouched /\ UNCHANGED cfgVars /\ NoProcs /\ UNCHANGED <<probes, attempt, fetched>>

\* a verb with an async command: the command runs up to its first await isProxyRunning()
Banner(verb) == <<Say(<<"banner: ">> \o verb)>>

\* const allowedSubcommands = ['add', 'list', 'remove', 'verify']
allowedSubcommands == <<<<"add">>, <<"list">>, <<"remove">>, <<"verify">>>>

\* array.includes(x); also str.includes(marker), the marker being one chunk of the text
includes(array, x) == \E i \in 1..Len(array) : array[i] = x

\* the bug a mutant plants: argv is forwarded as it is
SubArgs_unfiltered(args) == args

\* process.argv.slice(3).filter(arg => allowedSubcommands.includes(arg)), args being argv.slice(3)
SubArgs(args) == SelectSeq(args, LAMBDA arg : includes(allowedSubcommands, arg))

\* case 'accounts': cmdAccounts() up to `await isProxyRunning()`
AccountsBegin ==
    /\ pc = "main"
    /\ Command = <<"accounts">>
    /\ Continue("accounts.probe", <<>>)
    /\ Untouched /\ UNCHANGED cfgVars /\ NoProcs /\ UNCHANGED <<probes, attempt, fetched>>

\* cmdAccounts after the probe: exit 1 when the proxy is down or a file is missing,
\* else the accounts script is spawned and its exit awaited
AccountsProbed ==
    /\ pc = "accounts.probe"
    /\ \E up, dirOk, indexOk, scriptOk \in BOOLEAN, node \in NodeChoices :
          LET dirErrors == ProxyDirErrors(dirOk, indexOk)
              errors == IF ~up THEN <<err(<<"Proxy not running. Start it first: vertexhub start">>)>>
                        ELSE IF dirErrors # <<>> THEN dirErrors
                        ELSE IF ~NodeFound(node) THEN NodeBinErrors(FALSE)
                        ELSE ScriptErrors(scriptOk)
          IN  /\ probes' = Append(probes, up)
              /\ shellCmds' = IF up /\ dirErrors = <<>> THEN shellCmds \o NodeLookupCmds(node)
                              ELSE shellCmds
              /\ IF errors # <<>>
                 THEN Terminate(1, errors) /\ UNCHANGED spawned
                 ELSE /\ Continue("accounts.wait", <<>>)
                      /\ spawned' = Append(spawned,
                            Spawn(NodeBin, <<AccountsScript>> \o SubArgs(Tail(argv)),
                                  << <<"PORT", PROXY_PORT>> >>, FALSE))
    /\ Untouched /\ UNCHANGED cfgVars /\ UNCHANGED <<childProcesses, attempt, fetched>>

\* the accounts process exits (with any code) or fails to launch; cmdAccounts returns
AccountsDone ==
    /\ pc = "accounts.wait"
    /\ \E outcome \in {"exit0", "exit1", "error"} :
          /\ childExit' = outcome
          /\ Terminate(0, IF outcome = "error"
                          THEN <<err(<<"Failed to launch accounts manager: error.message">>)>>
                          ELSE <<>>)
    /\ UNCHANGED <<portVars, termVars, called, requests, returned,
                   argv, remote, proxyEvents, signalled, probeMs, waited>>
    /\ UNCHANGED cfgVars /\ NoProcs /\ UNCHANGED <<probes, attempt, fetched>>

\* getModels(): null on a network error, a bad body or a non-2xx answer (with a warning)
getModels(outcome) == IF outcome.kind = "ok" THEN outcome.body ELSE JNull

\* the lines of the loop over models.data, and whether model.id raised on a null item
RECURSIVE ModelLines(_)
ModelLines(items) ==
    IF items = <<>> THEN [lines |-> <<>>, threw |-> FALSE]
    ELSE IF Nullish(items[1]) THEN [lines |-> <<>>, threw |-> TRUE]
    ELSE LET id   == RemoveCodes(ModelIdControlCodes,
                                 ToText(Or(GetProp(items[1], "id"), JStr(<<>>))))
             rest == ModelLines(Tail(items))
         IN  [lines |-> <<Say(<<"  ", "c.cyan">> \o id \o <<"c.reset">>)>> \o rest.lines,
              threw |-> rest.threw]

\* case 'models': cmdModels() up to `await isProxyRunning()`
ModelsBegin ==
    /\ pc = "main"
    /\ Command = <<"models">>
    /\ Continue("models.probe", <<>>)
    /\ Untouched /\ UNCHANGED cfgVars /\ NoProcs /\ UNCHANGED <<probes, attempt, fetched>>

\* the bug a mutant plants: the models are fetched whatever the probe said
ModelsProbed_nocheck ==
    /\ pc = "models.probe"
    /\ \E up \in BOOLEAN : probes' = Append(probes, up)
    /\ Continue("models.fetch", <<>>)
    /\ Untouched /\ UNCHANGED cfgVars /\ NoProcs /\ UNCHANGED <<attempt, fetched>>

\* cmdModels after the probe: exit 1 when the proxy is down, else `await getModels()`
ModelsProbed ==
    /\ pc = "models.probe"
    /\ \E up \in BOOLEAN :
          /\ probes' = Append(probes, up)
          /\ IF up THEN Continue("models.fetch", <<>>)
             ELSE Terminate(1, <<err(<<"Proxy not running. Start it first: vertexhub start">>)>>)
    /\ Untouched /\ UNCHANGED cfgVars /\ NoProcs /\ UNCHANGED <<attempt, fetched>>

\* cmdModels after `await getModels()`
ModelsFetched ==
    /\ pc = "models.fetch"
    /\ \E outcome \in Outcomes(ModelsBodies) :
          LET models == getModels(outcome)
              data   == OptProp(models, "data")
          IN  /\ fetched' = models
              /\ IF Falsy(data) \/ ~IsArray(data)
                 THEN Terminate(1, (IF outcome.kind = "http"
                                    THEN <<warn(<<"Models endpoint returned HTTP ">>
                                                \o String(outcome.status))>>
                                    ELSE <<>>)
                                   \o <<err(<<"Could not fetch models from proxy.">>)>>)
                 ELSE LET listed == ModelLines(data.jv)
                          head   == <<Say(<<"c.bold", "Available Models:", "c.reset">>)>> \o listed.lines
                      IN  IF listed.threw
                          THEN Terminate(1, head \o <<Uncaught>>)
                          ELSE Terminate(0, head \o <<Say(<<"  Total: ">> \o String(Len(data.jv))
                                                          \o <<" models">>)>>)
    /\ Untouched /\ UNCHANGED cfgVars /\ NoProcs /\ UNCHANGED <<probes, attempt>>

--------------------------------------------------------------------------
(* cmdStatus *)

\* the bug a mutant plants: no `.catch(() => null)` on the /account-limits fetch,
\* its failure rejects Promise.all
getProxyStatus_strict(health, limits) ==
    IF health.kind # "ok" \/ limits.kind # "ok" THEN JNull
    ELSE JObj(<< <<"health", health.body>>, <<"limits", limits.body>> >>)

\* getProxyStatus(): null when /health failed, else {health, limits} with limits null
\* when /account-limits failed
getProxyStatus(health, limits) ==
    IF health.kind # "ok" THEN JNull
    ELSE JObj(<< <<"health", health.body>>,
                 <<"limits", IF limits.kind = "ok" THEN limits.body ELSE JNull>> >>)

\* the lines of the loop over the accounts, and whether acc.email raised on a null item
RECURSIVE AccountLines(_)
AccountLines(accounts) ==
    IF accounts = <<>> THEN [lines |-> <<>>, threw |-> FALSE]
    ELSE IF Nullish(accounts[1]) THEN [lines |-> <<>>, threw |-> TRUE]
    ELSE LET acc  == accounts[1]
             name == Substring0(ToText(Or(GetProp(acc, "email"),
                                          Or(GetProp(acc, "id"), JStr(<<"unknown">>)))),
                                NameMaxLen)
             rest == AccountLines(Tail(accounts))
         IN  [lines |-> <<Say(<<"    -> ">> \o name \o <<": ">>
                              \o ToText(Or(GetProp(acc, "status"), JStr(<<"active">>))))>>
                         \o rest.lines,
              threw |-> rest.threw]

\* the `if (running) { ... }` block of cmdStatus
StatusReport(status) ==
    LET health == OptProp(status, "health")
        limits == OptProp(status, "limits")
        healthLines ==
            IF Falsy(health) THEN <<>>
            ELSE <<Say(<<"  Version: ">> \o ToText(Or(GetProp(health, "version"), JStr(<<"unknown">>)))),
                   Say(<<"  Strategy: ">> \o ToText(Or(GetProp(health, "strategy"), JStr(<<"unknown">>))))>>
        accounts == IF IsArray(limits) THEN limits.jv ELSE <<limits>>
        listed == AccountLines(accounts)
    IN  IF Falsy(limits) THEN [lines |-> healthLines, threw |-> FALSE]
        ELSE [lines |-> healthLines \o <<Say(<<"  Accounts: ">> \o String(Len(accounts)))>> \o listed.lines,
              threw |-> listed.threw]

\* the "Claude Config" lines: the settings file is read and parsed again
ConfigLines(file) ==
    IF ~file.ok
    THEN <<Say(<<"  Claude Config: ", "c.red", "Not configured", "c.reset">>),
           Say(<<"    Run: vertexhub start to auto-configure">>)>>
    ELSE IF JSONparse(file.val).threw
    THEN <<Say(<<"  Claude Config: ", "c.yellow", "Invalid JSON", "c.reset">>)>>
    ELSE LET env == OptProp(JSONparse(file.val).val, "env")
         IN  <<Say(<<"  Claude Config: ", "c.green", "Configured", "c.reset">>),
               Say(<<"    Base URL: ">>
                   \o ToText(Or(OptProp(env, "ANTHROPIC_BASE_URL"), JStr(<<"not set">>)))),
               Say(<<"    Model: ">>
                   \o ToText(Or(OptProp(env, "ANTHROPIC_MODEL"), JStr(<<"not set">>))))>>

\* cmdStatus from the proxy-directory check to its end
StatusRestLines(dirOk, claudeOk, node) ==
    <<Say(<<"  Proxy Dir: ">> \o (IF dirOk THEN <<"c.green", "Found">> ELSE <<"c.red", "Missing">>)
          \o <<"c.reset", " (PROXY_DIR)">>)>>
        \o ConfigLines(settingsFile)
        \o <<Say(<<"  Claude Code: ">> \o (IF claudeOk THEN <<"c.green", "Installed">>
                                          ELSE <<"c.red", "Not found">>) \o <<"c.reset">>),
             Say(<<"  Node.js: ">> \o (IF NodeFound(node) THEN <<"c.green", "nodeBin">>
                                      ELSE <<"c.red", "Not found">>) \o <<"c.reset">>),
             Say(<<>>)>>

ProxyLine(running) ==
    Say(<<"  Proxy: ">> \o (IF running THEN <<"c.green", "Running", "c.reset", " at ">> \o PROXY_URL
                            ELSE <<"c.red", "Stopped", "c.reset">>))

\* case 'status': cmdStatus() up to `await isProxyRunning()`
StatusBegin ==
    /\ pc = "main"
    /\ Command = <<"status">>
    /\ Continue("status.probe", Banner(<<"Status Check">>))
    /\ Untouched /\ UNCHANGED cfgVars /\ NoProcs /\ UNCHANGED <<probes, attempt, fetched>>

\* cmdStatus after the probe: to the end when the proxy is down, else up to `await getProxyStatus()`
StatusProbed ==
    /\ pc = "status.probe"
    /\ \E up, dirOk, claudeOk \in BOOLEAN, node \in NodeChoices :
          /\ probes' = Append(probes, up)
          /\ IF up
             THEN Continue("status.fetch", <<ProxyLine(TRUE)>>) /\ UNCHANGED shellCmds
             ELSE /\ Terminate(0, <<ProxyLine(FALSE)>> \o StatusRestLines(dirOk, claudeOk, node))
                  /\ shellCmds' = shellCmds \o <<<<"which claude">>>> \o NodeLookupCmds(node)
    /\ Untouched /\ UNCHANGED cfgVars /\ UNCHANGED <<spawned, childProcesses, attempt, fetched>>

\* cmdStatus after `await getProxyStatus()`, to its end
StatusFetched ==
    /\ pc = "status.fetch"
    /\ \E health \in Outcomes(HealthBodies), limits \in Outcomes(LimitsBodies) :
       \E dirOk, claudeOk \in BOOLEAN, node \in NodeChoices :
          LET status == getProxyStatus(health, limits)
              report == StatusReport(status)
          IN  /\ fetched' = status
              /\ IF report.threw
                 THEN Terminate(1, report.lines \o <<Uncaught>>) /\ UNCHANGED shellCmds
                 ELSE /\ Terminate(0, report.lines \o StatusRestLines(dirOk, claudeOk, node))
                      /\ shellCmds' = shellCmds \o <<<<"which claude">>>> \o NodeLookupCmds(node)
    /\ Untouched /\ UNCHANGED cfgVars /\ UNCHANGED <<spawned, childProcesses, probes, attempt>>

--------------------------------------------------------------------------
(* cmdLogin *)

\* what configureClaudeSettings prints
ConfigureLines(sFile, cFile, url) ==
    LET r == ConfigureResult(sFile, cFile, url)
        unparsable(file) == file.ok /\ JSONparse(file.val).threw
    IN  (IF unparsable(sFile)
         THEN <<warn(<<"Could not parse existing CLAUDE_SETTINGS_FILE: e.message">>),
                warn(<<"Creating new settings file.">>)>>
         ELSE <<>>)
        \o (IF r.writeS THEN <<ok(<<"Claude Code settings configured -> CLAUDE_SETTINGS_FILE">>)>>
            ELSE <<>>)
        \o (IF r.writeS /\ unparsable(cFile)
            THEN <<warn(<<"Could not parse existing CLAUDE_JSON_FILE: e.message">>)>>
            ELSE <<>>)
        \o (IF r.writeC THEN <<ok(<<"Claude Code onboarding bypassed">>)>> ELSE <<>>)
        \o (IF r.threw THEN <<Uncaught>> ELSE <<>>)

\* the bug a mutant plants: --no-browser is passed on every session
LoginArgs_always(isRemote) == <<AccountsScript, <<"add">>, <<"--no-browser">>>>

\* const args = [accountsScript, 'add']; if (isRemote) args.push('--no-browser')
LoginArgs(isRemote) ==
    <<AccountsScript, <<"add">>>> \o (IF isRemote THEN <<<<"--no-browser">>>> ELSE <<>>)

\* `fuser -k ${port}/tcp 2>/dev/null` for each port of [...new Set(['8080', PROXY_PORT])]
FuserCmd(port) == <<"fuser -k ">> \o port \o <<"/tcp 2>/dev/null">>

StopProxyCmds ==
    LET default == <<"8", "0", "8", "0">>
    IN  <<FuserCmd(default)>> \o (IF PROXY_PORT = default THEN <<>> ELSE <<FuserCmd(PROXY_PORT)>>)

RemoteLines ==
    IF remote
    THEN <<Say(<<"c.bold", "c.yellow", "  Remote/headless server detected", "c.reset">>),
           Say(<<"How to complete the login: ... ssh -L 51121:localhost:51121 USER@HOSTNAME">>)>>
    ELSE <<>>

\* cmdLogin from the remote-session notice to `await new Promise(...)`
LoginLaunch(before) ==
    \E scriptOk \in BOOLEAN, node \in NodeChoices :
        LET errors == IF ~NodeFound(node) THEN NodeBinErrors(FALSE) ELSE ScriptErrors(scriptOk)
        IN  /\ shellCmds' = shellCmds \o NodeLookupCmds(node)
            /\ IF errors # <<>>
               THEN Terminate(1, before \o RemoteLines \o errors) /\ UNCHANGED spawned
               ELSE /\ Continue("login.wait", before \o RemoteLines)
                    /\ spawned' = Append(spawned,
                          Spawn(NodeBin, LoginArgs(remote), << <<"PORT", PROXY_PORT>> >>, FALSE))

\* case 'login': cmdLogin() from `const isRemote = isRemoteSession()` up to the
\* first `await isProxyRunning()`
LoginBegin ==
    /\ pc = "main"
    /\ Command = <<"login">>
    /\ \E dirOk, indexOk \in BOOLEAN :
          IF ProxyDirErrors(dirOk, indexOk) # <<>>
          THEN Terminate(1, Banner(<<"Google Login">>) \o ProxyDirErrors(dirOk, indexOk))
          ELSE Continue("login.probe", Banner(<<"Google Login">>))
    /\ remote' \in BOOLEAN
    /\ UNCHANGED <<portVars, termVars, called, requests, returned,
                   argv, proxyEvents, childExit, signalled, probeMs, waited>>
    /\ UNCHANGED cfgVars /\ NoProcs /\ UNCHANGED <<probes, attempt, fetched>>

\* after the probe: a running proxy is stopped (stopProxy up to its 2 s wait),
\* otherwise the accounts script is launched
LoginProbed ==
    /\ pc = "login.probe"
    /\ \E up \in BOOLEAN :
          /\ probes' = Append(probes, up)
          /\ IF up
             THEN /\ Continue("login.settle", <<log(<<"Stopping proxy (required to manage accounts)...">>)>>)
                  /\ shellCmds' = shellCmds \o StopProxyCmds
                  /\ UNCHANGED spawned
             ELSE LoginLaunch(<<>>)
    /\ Untouched /\ UNCHANGED cfgVars /\ UNCHANGED <<childProcesses, attempt, fetched>>

\* the 2 s wait of stopProxy is over; cmdLogin awaits the second isProxyRunning()
LoginSettled ==
    /\ pc = "login.settle"
    /\ Continue("login.probe2", <<>>)
    /\ Untouched /\ UNCHANGED cfgVars /\ NoProcs /\ UNCHANGED <<probes, attempt, fetched>>

LoginProbedAgain ==
    /\ pc = "login.probe2"
    /\ \E up \in BOOLEAN :
          /\ probes' = Append(probes, up)
          /\ IF up
             THEN /\ Terminate(1, <<err(<<"Could not stop proxy. Stop it manually (Ctrl+C) and try again.">>)>>)
                  /\ UNCHANGED <<spawned, shellCmds>>
             ELSE LoginLaunch(<<ok(<<"Proxy stopped.">>)>>)
    /\ Untouched /\ UNCHANGED cfgVars /\ UNCHANGED <<childProcesses, attempt, fetched>>

\* the bug a mutant plants: the settings are configured whenever the accounts
\* process exited, whatever its code
LoginDone_anyexit ==
    /\ pc = "login.wait"
    /\ \E outcome \in {"exit0", "exit1", "error"} :
          /\ childExit' = outcome
          /\ IF outcome # "error"
             THEN /\ IF ConfigureResult(settingsFile, claudeJsonFile, PROXY_URL).threw
                     THEN Terminate(1, <<ok(<<"Google account linked successfully!">>)>>
                                       \o ConfigureLines(settingsFile, claudeJsonFile, PROXY_URL))
                     ELSE Terminate(0, <<ok(<<"Google account linked successfully!">>)>>
                                       \o ConfigureLines(settingsFile, claudeJsonFile, PROXY_URL)
                                       \o <<Say(<<"c.green", "Login complete!", "c.reset",
                                                  " Next steps: ...">>)>>)
                  /\ configureClaudeSettings
             ELSE /\ Terminate(0, IF outcome = "exit1"
                                  THEN <<err(<<"Account linking failed (exit code: 1)">>)>>
                                  ELSE <<err(<<"Failed to launch accounts manager: error.message">>)>>)
                  /\ UNCHANGED cfgVars
    /\ UNCHANGED <<portVars, termVars, called, requests, returned,
                   argv, remote, proxyEvents, signalled, probeMs, waited>>
    /\ NoProcs /\ UNCHANGED <<probes, attempt, fetched>>

\* the accounts process exits or fails to launch; cmdLogin returns
LoginDone ==
    /\ pc = "login.wait"
    /\ \E outcome \in {"exit0", "exit1", "error"} :
          /\ childExit' = outcome
          /\ IF outcome = "exit0"
             THEN /\ IF ConfigureResult(settingsFile, claudeJsonFile, PROXY_URL).threw
                     THEN Terminate(1, <<ok(<<"Google account linked successfully!">>)>>
                                       \o ConfigureLines(settingsFile, claudeJsonFile, PROXY_URL))
                     ELSE Terminate(0, <<ok(<<"Google account linked successfully!">>)>>
                                       \o ConfigureLines(settingsFile, claudeJsonFile, PROXY_URL)
                                       \o <<Say(<<"c.green", "Login complete!", "c.reset",
                                                  " Next steps: ...">>)>>)
                  /\ configureClaudeSettings
             ELSE /\ Terminate(0, IF outcome = "exit1"
                                  THEN <<err(<<"Account linking failed (exit code: 1)">>)>>
                                  ELSE <<err(<<"Failed to launch accounts manager: error.message">>)>>)
                  /\ UNCHANGED cfgVars
    /\ UNCHANGED <<portVars, termVars, called, requests, returned,
                   argv, remote, proxyEvents, signalled, probeMs, waited>>
    /\ NoProcs /\ UNCHANGED <<probes, attempt, fetched>>

--------------------------------------------------------------------------
(* cmdStart and startProxy *)

\* for (let i = 0; i < 15; i++)
StartAttempts == 15

\* line.substring(0, 200)
StderrMaxLen == 200

\* the 'data' and 'error' events of the proxy process handled in one invocation
MaxProxyEvents == 1

StdoutChunks == {<<"Server started successfully", "LF">>, <<"listening">>}

StderrChunks == {<<"Error: listen ", "EADDRINUSE", "LF">>, <<" ", "LF">>, <<"w", "ESC", "[", "2", "J">>}

\* step 3 of cmdStart up to `await new Promise(...)`
LaunchClaude(before) ==
    /\ Continue("start.claude", before \o <<log(<<"Launching Claude Code CLI...">>)>>)
    /\ spawned' = Append(spawned,
          Spawn(<<"claude">>, <<>>,
                << <<"ANTHROPIC_BASE_URL", PROXY_URL>>,
                   <<"ANTHROPIC_AUTH_TOKEN", <<"vertexhub-proxy">>>> >>, FALSE))

\* startProxy(): the checks, the detached spawn and the registration of the handle
startProxy ==
    \E dirOk, indexOk, pid \in BOOLEAN, node \in NodeChoices :
        LET dirErrors == ProxyDirErrors(dirOk, indexOk)
            errors == IF dirErrors # <<>> THEN dirErrors
                      ELSE IF ~NodeFound(node) THEN NodeBinErrors(FALSE) ELSE <<>>
        IN  /\ shellCmds' = IF dirErrors = <<>> THEN shellCmds \o NodeLookupCmds(node) ELSE shellCmds
            /\ IF errors # <<>>
               THEN Terminate(1, errors) /\ UNCHANGED <<spawned, childProcesses>>
               ELSE /\ Continue("start.sleep",
                                <<log(<<"Starting Antigravity proxy on port ">> \o PROXY_PORT \o <<"...">>)>>)
                    /\ spawned' = Append(spawned,
                          Spawn(NodeBin, <<<<"PROXY_DIR/src/index.js">>>>,
                                << <<"PORT", PROXY_PORT>>, <<"HOST", <<"127.0.0.1">>>> >>, TRUE))
                    /\ childProcesses' = Append(childProcesses, [pid |-> pid])

\* case 'start': cmdStart() up to `await isProxyRunning()`
StartBegin ==
    /\ pc = "main"
    /\ Command = <<"start">>
    /\ \E dirOk, indexOk \in BOOLEAN :
          IF ProxyDirErrors(dirOk, indexOk) # <<>>
          THEN /\ Terminate(1, Banner(<<"Starting Session">>) \o ProxyDirErrors(dirOk, indexOk))
               /\ UNCHANGED cfgVars
          ELSE /\ IF ConfigureResult(settingsFile, claudeJsonFile, PROXY_URL).threw
                  THEN Terminate(1, Banner(<<"Starting Session">>)
                                    \o ConfigureLines(settingsFile, claudeJsonFile, PROXY_URL))
                  ELSE Continue("start.probe", Banner(<<"Starting Session">>)
                                    \o ConfigureLines(settingsFile, claudeJsonFile, PROXY_URL))
               /\ configureClaudeSettings
    /\ Untouched /\ NoProcs /\ UNCHANGED <<probes, attempt, fetched>>

\* cmdStart after the first probe
StartProbed ==
    /\ pc = "start.probe"
    /\ \E up \in BOOLEAN :
          /\ probes' = Append(probes, up)
          /\ IF up
             THEN /\ LaunchClaude(<<ok(<<"Proxy already running at ">> \o PROXY_URL)>>)
                  /\ UNCHANGED <<shellCmds, childProcesses>>
             ELSE startProxy
    /\ Untouched /\ UNCHANGED cfgVars /\ UNCHANGED <<attempt, fetched>>

\* the 1000 ms timer of the wait loop fires and isProxyRunning() is called
StartSlept ==
    /\ pc = "start.sleep"
    /\ Continue("start.poll", <<>>)
    /\ waited' = waited + 1000
    /\ UNCHANGED <<portVars, termVars, called, requests, returned,
                   argv, remote, proxyEvents, childExit, signalled, probeMs>>
    /\ UNCHANGED cfgVars /\ NoProcs /\ UNCHANGED <<probes, attempt, fetched>>

\* the bug a mutant plants: the wait loop runs while i <= 15, one probe too many
StartPolled_onemore ==
    /\ pc = "start.poll"
    /\ \E up \in BOOLEAN, ms \in probeMs :
          /\ probes' = Append(probes, up)
          /\ waited' = waited + ms
          /\ IF up
             THEN /\ LaunchClaude(<<Say(<<>>), ok(<<"Proxy started at ">> \o PROXY_URL)>>)
                  /\ UNCHANGED attempt
             ELSE /\ attempt' = attempt + 1
                  /\ UNCHANGED spawned
                  /\ IF attempt + 1 <= StartAttempts
                     THEN Continue("start.sleep", <<Line("stdout", <<".">>)>>)
                     ELSE Terminate(1, <<Line("stdout", <<".">>), Say(<<>>),
                                        err(<<"Proxy failed to start within 15 seconds.">>),
                                        err(<<"Check: ", "c.dim", "VERTEXHUB_PORT=">> \o PROXY_PORT
                                            \o <<" node PROXY_DIR/src/index.js", "c.reset">>)>>)
    /\ UNCHANGED <<portVars, termVars, called, requests, returned,
                   argv, remote, proxyEvents, childExit, signalled, probeMs>>
    /\ UNCHANGED cfgVars /\ UNCHANGED <<shellCmds, childProcesses, fetched>>

\* the probe of iteration i of the wait loop answers, after some time within its
\* AbortSignal.timeout(2000)
StartPolled ==
    /\ pc = "start.poll"
    /\ \E up \in BOOLEAN, ms \in probeMs :
          /\ probes' = Append(probes, up)
          /\ waited' = waited + ms
          /\ IF up
             THEN /\ LaunchClaude(<<Say(<<>>), ok(<<"Proxy started at ">> \o PROXY_URL)>>)
                  /\ UNCHANGED attempt
             ELSE /\ attempt' = attempt + 1
                  /\ UNCHANGED spawned
                  /\ IF attempt + 1 < StartAttempts
                     THEN Continue("start.sleep", <<Line("stdout", <<".">>)>>)
                     ELSE Terminate(1, <<Line("stdout", <<".">>), Say(<<>>),
                                        err(<<"Proxy failed to start within 15 seconds.">>),
                                        err(<<"Check: ", "c.dim", "VERTEXHUB_PORT=">> \o PROXY_PORT
                                            \o <<" node PROXY_DIR/src/index.js", "c.reset">>)>>)
    /\ UNCHANGED <<portVars, termVars, called, requests, returned,
                   argv, remote, proxyEvents, childExit, signalled, probeMs>>
    /\ UNCHANGED cfgVars /\ UNCHANGED <<shellCmds, childProcesses, fetched>>

\* the claude process exits or fails to launch; cmdStart returns
StartDone ==
    /\ pc = "start.claude"
    /\ \E outcome \in {"exit0", "exit1", "ENOENT", "error"} :
          /\ childExit' = outcome
          /\ Terminate(0, CASE outcome = "ENOENT" ->
                              <<err(<<"Claude Code CLI not found. Install it first:">>),
                                Say(<<"  ", "c.dim", "npm install -g @anthropic-ai/claude-code", "c.reset">>),
                                Say(<<"  ", "c.dim", "or: curl -fsSL https://claude.ai/install.sh | sh",
                                      "c.reset">>)>>
                         [] outcome = "error" -> <<err(<<"Failed to launch Claude Code: error.message">>)>>
                         [] outcome = "exit0" -> <<log(<<"Session ended (code: 0)">>)>>
                         [] OTHER -> <<log(<<"Session ended (code: 1)">>)>>)
    /\ UNCHANGED <<portVars, termVars, called, requests, returned,
                   argv, remote, proxyEvents, signalled, probeMs, waited>>
    /\ UNCHANGED cfgVars /\ NoProcs /\ UNCHANGED <<probes, attempt, fetched>>

\* the CLI is suspended in cmdStart with a proxy process of its own (an event that
\* arrives while a probe is in flight prints where one arriving before it would)
ProxyAttached ==
    /\ pc \in {"start.sleep", "start.claude"}
    /\ childProcesses # <<>>
    /\ Len(proxyEvents) < MaxProxyEvents

\* the bug a mutant plants: the proxy's own `Server started successfully` line is
\* taken for a healthy probe and claude is launched on it
ProxyStdout_trusted ==
    /\ ProxyAttached
    /\ childProcesses[1].pid
    /\ proxyEvents' = Append(proxyEvents, "stdout")
    /\ LaunchClaude(<<ok(<<"Proxy running at ">> \o PROXY_URL)>>)
    /\ UNCHANGED <<portVars, termVars, called, requests, returned,
                   argv, remote, childExit, signalled, probeMs, waited>>
    /\ UNCHANGED cfgVars /\ UNCHANGED <<shellCmds, childProcesses, probes, attempt, fetched>>

\* proxyProcess.stdout.on('data', ...)
ProxyStdout ==
    /\ ProxyAttached
    /\ childProcesses[1].pid
    /\ \E data \in StdoutChunks :
          /\ proxyEvents' = Append(proxyEvents, "stdout")
          /\ Continue(pc, IF includes(trim(data), "Server started successfully")
                          THEN <<ok(<<"Proxy running at ">> \o PROXY_URL)>>
                          ELSE <<>>)
    /\ UNCHANGED <<portVars, termVars, called, requests, returned,
                   argv, remote, childExit, signalled, probeMs, waited>>
    /\ UNCHANGED cfgVars /\ NoProcs /\ UNCHANGED <<probes, attempt, fetched>>

\* proxyProcess.stderr.on('data', ...)
ProxyStderr ==
    /\ ProxyAttached
    /\ childProcesses[1].pid
    /\ \E data \in StderrChunks :
          LET line == trim(data)
          IN  /\ proxyEvents' = Append(proxyEvents, "stderr")
              /\ Continue(pc, IF includes(line, "EADDRINUSE")
                              THEN <<warn(<<"Port ">> \o PROXY_PORT
                                          \o <<" already in use - proxy may already be running">>)>>
                              ELSE IF Len(line) > 0
                              THEN <<log(<<"[proxy:stderr] ">> \o Substring0(line, StderrMaxLen))>>
                              ELSE <<>>)
    /\ UNCHANGED <<portVars, termVars, called, requests, returned,
                   argv, remote, childExit, signalled, probeMs, waited>>
    /\ UNCHANGED cfgVars /\ NoProcs /\ UNCHANGED <<probes, attempt, fetched>>

\* proxyProcess.on('error', ...): the spawn failed, the handle has no pid
ProxyError ==
    /\ ProxyAttached
    /\ ~childProcesses[1].pid
    /\ proxyEvents = <<>>
    /\ proxyEvents' = Append(proxyEvents, "error")
    /\ Continue(pc, <<err(<<"Failed to start proxy: error.message">>)>>)
    /\ UNCHANGED <<portVars, termVars, called, requests, returned,
                   argv, remote, childExit, signalled, probeMs, waited>>
    /\ UNCHANGED cfgVars /\ NoProcs /\ UNCHANGED <<probes, attempt, fetched>>

--------------------------------------------------------------------------
(* Signals, and the CLI as a whole *)

\* process.on('SIGTERM' / 'SIGINT', () => { cleanup(); process.exit(0); }), the
\* 'exit' handler running cleanup once more; a signal is handled while the CLI
\* is suspended at an await
Signalled ==
    /\ pc \notin {"load", "main", "exited"}
    /\ pc' = "exited"
    /\ exitCode' = 0
    /\ sigterms' = sigterms + 2 * CleanupKills(childProcesses)
    /\ signalled' = TRUE
    /\ UNCHANGED terminal
    /\ UNCHANGED <<portVars, termVars, called, requests, returned,
                   argv, remote, proxyEvents, childExit, probeMs, waited>>
    /\ UNCHANGED cfgVars /\ NoProcs /\ UNCHANGED <<probes, attempt, fetched>>

Next ==
    \/ LoadConfig
    \/ Help
    \/ UnknownCommand
    \/ LoginBegin
    \/ LoginProbed
    \/ LoginSettled
    \/ LoginProbedAgain
    \/ LoginDone
    \/ StartBegin
    \/ StartProbed
    \/ StartSlept
    \/ StartPolled
    \/ StartDone
    \/ ProxyStdout
    \/ ProxyStderr
    \/ ProxyError
    \/ StatusBegin
    \/ StatusProbed
    \/ StatusFetched
    \/ AccountsBegin
    \/ AccountsProbed
    \/ AccountsDone
    \/ ModelsBegin
    \/ ModelsProbed
    \/ ModelsFetched
    \/ Signalled

Spec == Init /\ [][Next]_vars

--------------------------------------------------------------------------
(* Claims about the arguments given to the accounts script and the text    *)
(* written to the terminal                                                 *)

ClaimedAllowSet == {<<"add">>, <<"list">>, <<"remove">>, <<"verify">>}

\* the subsequence of args whose elements are members of the allow-set
RECURSIVE KeepAllowed(_)
KeepAllowed(args) ==
    IF args = <<>> THEN <<>>
    ELSE (IF Head(args) \in ClaimedAllowSet THEN <<Head(args)>> ELSE <<>>) \o KeepAllowed(Tail(args))

ScriptSpawns == {i \in 1..Len(spawned) : spawned[i].args # <<>> /\ spawned[i].args[1] = AccountsScript}

\* C4: for every argument list given after the verb `accounts`, the arguments
\* forwarded to the accounts script are exactly the subsequence of that list
\* whose elements are in {add, list, remove, verify}: order and duplicates
\* kept, everything else dropped, nothing added.
C4_ForwardsAllowedSubsequence ==
    \A i \in ScriptSpawns :
        Command = <<"accounts">> => Tail(spawned[i].args) = KeepAllowed(Tail(argv))

C4_Witness ==
    /\ pc = "accounts.wait"
    /\ argv = <<<<"accounts">>, <<"add">>, <<"rm">>, <<"list">>, <<"DROP">>>>
    /\ Len(spawned) = 1
    /\ spawned[1].args = <<AccountsScript, <<"add">>, <<"list">>>>

\* C5 as stated: every spawn of the accounts script passes exactly one
\* argument after the script path, a member of {add, list, remove, verify}.
C5_ExactlyOneAllowedArg ==
    \A i \in ScriptSpawns :
        /\ Len(spawned[i].args) = 2
        /\ spawned[i].args[2] \in ClaimedAllowSet

\* C5: every spawn of the accounts script passes only fixed or allow-listed
\* arguments after the script path: the login flow passes `add`, followed by
\* `--no-browser` exactly when the session is remote; the accounts flow passes
\* zero or more arguments, each a member of {add, list, remove, verify}.
C5_OnlyFixedOrAllowedArgs ==
    \A i \in ScriptSpawns :
        LET passed == Tail(spawned[i].args)
        IN  IF Command = <<"login">>
            THEN passed = (IF remote THEN <<<<"add">>, <<"--no-browser">>>> ELSE <<<<"add">>>>)
            ELSE /\ Command = <<"accounts">>
                 /\ \A k \in 1..Len(passed) : passed[k] \in ClaimedAllowSet

C5_Witness ==
    /\ pc = "login.wait"
    /\ remote
    /\ Len(spawned) = 1
    /\ spawned[1].args = <<AccountsScript, <<"add">>, <<"--no-browser">>>>

HasControlChar(text) == \E k \in 1..Len(text) : Code(text[k]) \in ClaimedControlCodes

\* C7: in every command that prints text of a proxy HTTP response or echoes
\* argv (every command but `start`, which prints neither), no line written to
\* the terminal holds a character of 0x00-0x08, 0x0B-0x0C, 0x0E-0x1F or 0x7F.
C7_NoControlCharReachesTerminal ==
    Command # <<"start">> => \A i \in 1..Len(terminal) : ~HasControlChar(terminal[i].text)

--------------------------------------------------------------------------
(* Claims about exit codes, the dispatcher and the order of probes and spawns *)

Exited == pc = "exited"

\* C11: whenever the subprocess forwarded by `login` or `accounts` exits with
\* a non-zero code, the CLI itself ends with exit code 1.
C11_ChildFailureExitsOne ==
    (Exited /\ Command \in {<<"login">>, <<"accounts">>} /\ childExit = "exit1") => exitCode = 1

\* the first command-line argument, <<>> when there is none or it is the empty string
FirstArg == IF argv = <<>> THEN <<>> ELSE argv[1]

ClaimedVerbs ==
    {<<"login">>, <<"start">>, <<"status">>, <<"accounts">>, <<"models">>, <<"help">>,
     <<"--help">>, <<"-h">>}

\* no spawn, no shell command, no HTTP request (none answered, none in flight), no file write
NoEffect ==
    /\ spawned = <<>> /\ shellCmds = <<>> /\ childProcesses = <<>>
    /\ probes = <<>> /\ fetched = JUndefined
    /\ cfgRuns = 0
    /\ pc \in {"load", "main", "exited"}

UnknownCommandReport(arg) ==
    /\ terminal = <<err(<<"Unknown command: ">> \o SelectSeq(arg, KeptByClaim))>> \o HelpLines
    /\ exitCode = 1

\* C12 as stated: every first argument that is not one of the eight verbs, the
\* empty string included, gets the `Unknown command` report and exit code 1.
C12_EveryOtherArgIsUnknown ==
    (Exited /\ argv # <<>> /\ argv[1] \notin ClaimedVerbs) => UnknownCommandReport(argv[1])

\* C12: for every non-empty first argument that is not one of the eight verbs
\* the dispatcher prints `Unknown command` naming the argument without its
\* control characters, prints the help text and exits with 1; with no argument,
\* an empty argument, or help / --help / -h it prints help and exits with 0; in
\* both cases it spawns nothing, requests nothing and writes no file.
C12_UnknownCommandOrHelp ==
    /\ (FirstArg # <<>> /\ FirstArg \notin ClaimedVerbs) =>
          /\ NoEffect
          /\ Exited => UnknownCommandReport(FirstArg)
    /\ FirstArg \in {<<>>, <<"help">>, <<"--help">>, <<"-h">>} =>
          /\ NoEffect
          /\ Exited => (terminal = HelpLines /\ exitCode = 0)

C12_Witness ==
    /\ Exited
    /\ argv = <<<<"x", "ESC", "[", "2", "J">>>>
    /\ terminal[1] = err(<<"Unknown command: ", "x", "[", "2", "J">>)
    /\ exitCode = 1

NotRunningReport ==
    /\ Exited
    /\ exitCode = 1
    /\ terminal = <<err(<<"Proxy not running. Start it first: vertexhub start">>)>>

\* C13: in the `accounts` and `models` flows nothing is spawned or fetched
\* before the health probe; a probe that reports the proxy as not available
\* ends the flow with the corrective instruction and exit code 1; the accounts
\* script is spawned, and /v1/models requested, only after a healthy probe.
C13_ProbeFirstFailFast ==
    FirstArg \in {<<"accounts">>, <<"models">>} =>
        /\ probes = <<>> =>
              spawned = <<>> /\ shellCmds = <<>> /\ fetched = JUndefined
                  /\ pc \in {"load", "main", "accounts.probe", "models.probe", "exited"}
        /\ (probes # <<>> /\ ~probes[1]) =>
              NotRunningReport /\ spawned = <<>> /\ shellCmds = <<>> /\ fetched = JUndefined
        /\ (spawned # <<>> \/ fetched # JUndefined \/ pc \in {"accounts.wait", "models.fetch"}) =>
              probes = <<TRUE>>

C13_Witness ==
    /\ FirstArg = <<"models">>
    /\ probes = <<FALSE>>
    /\ NotRunningReport
    /\ fetched = JUndefined

ProxySpawned == \E i \in 1..Len(spawned) : spawned[i].detached

ClaudeSpawned == \E i \in 1..Len(spawned) : spawned[i].prog = <<"claude">>

SomeProbeHealthy == \E i \in 1..Len(probes) : probes[i]

\* the settings file holds what configureClaudeSettings writes for this PROXY_URL
SettingsWritten ==
    /\ cfgRuns > 0
    /\ settingsFile.ok
    /\ settingsFile.val.jt = "obj"
    /\ Get(Get(settingsFile.val, "env"), "ANTHROPIC_BASE_URL") = JStr(PROXY_URL)

\* C14 as stated: in the `start` flow, when no probe returned healthy, claude
\* is not spawned and the CLI exits with code 1.
C14_NoHealthyProbeExitsOne ==
    (FirstArg = <<"start">> /\ Exited /\ ~SomeProbeHealthy) => (~ClaudeSpawned /\ exitCode = 1)

\* C14: in the `start` flow the settings file is written before the proxy is
\* spawned, claude is spawned only after a probe of the invocation returned
\* healthy (a line on the proxy's stdout or stderr does not count), and when no
\* probe returned healthy claude is never spawned and the CLI exits with code
\* 1, unless a SIGTERM or SIGINT ended it first, in which case it exits with 0.
C14_StartOrdering ==
    /\ [](FirstArg = <<"start">> =>
            /\ ProxySpawned => SettingsWritten
            /\ ClaudeSpawned => SomeProbeHealthy
            /\ (Exited /\ ~SomeProbeHealthy) =>
                  (~ClaudeSpawned /\ exitCode = (IF signalled THEN 0 ELSE 1)))
    /\ [][(~ProxySpawned /\ ProxySpawned') => (SettingsWritten /\ UNCHANGED settingsFile)]_vars
    /\ [][(~ClaudeSpawned /\ ClaudeSpawned') => SomeProbeHealthy']_vars

C14_Witness ==
    /\ FirstArg = <<"start">>
    /\ Exited /\ ~signalled
    /\ ProxySpawned /\ ~ClaudeSpawned
    /\ proxyEvents = <<"stdout">>
    /\ \E i \in 1..Len(terminal) : terminal[i] = ok(<<"Proxy running at ">> \o PROXY_URL)
    /\ Len(probes) = 16
    /\ exitCode = 1

--------------------------------------------------------------------------
(* The startup wait of `start` *)

\* the probes of the wait loop: every probe of the invocation after the first
WaitProbes == IF probes = <<>> THEN <<>> ELSE Tail(probes)

TimedOut ==
    \E i \in 1..Len(terminal) : terminal[i] = err(<<"Proxy failed to start within 15 seconds.">>)

\* C15: after spawning the proxy, `start` probes at most 15 times, each probe
\* entered from a 1000 ms sleep; a healthy probe is the last one; and the timed-out
\* outcome, with exit code 1, is reported exactly when 15 probes were all unhealthy
C15_BoundedWait ==
    /\ [](FirstArg = <<"start">> =>
            /\ Len(WaitProbes) <= StartAttempts
            /\ WaitProbes # <<>> => ProxySpawned
            /\ \A i \in 1..Len(probes) : probes[i] => i = Len(probes)
            /\ TimedOut <=> (Len(WaitProbes) = StartAttempts /\ ~SomeProbeHealthy)
            /\ TimedOut => (Exited /\ exitCode = 1))
    /\ [][(FirstArg = <<"start">> /\ pc' = "start.poll")
              => (pc = "start.sleep" /\ waited' = waited + 1000 /\ UNCHANGED probes)]_vars
    /\ [][(FirstArg = <<"start">> /\ probes # <<>> /\ probes' # probes)
              => (pc = "start.poll" /\ Len(probes') = Len(probes) + 1)]_vars

C15_Witness ==
    /\ FirstArg = <<"start">>
    /\ TimedOut
    /\ Len(WaitProbes) = StartAttempts
    /\ waited = StartAttempts * 1000
    /\ exitCode = 1

\* the wait also ends early: a healthy third probe of the loop launches claude
C15_WitnessHealthy ==
    /\ FirstArg = <<"start">>
    /\ WaitProbes = <<FALSE, FALSE, TRUE>>
    /\ ClaudeSpawned
    /\ ~TimedOut

--------------------------------------------------------------------------
(* The startup wait of `start`, timed: a health probe answers at once (connection
   refused), after a while, or only when its AbortSignal.timeout(2000) fires *)

InitWait ==
    /\ pc = "load"
    /\ entry = "cli"
    /\ envPort \in CfgPorts
    /\ sanitized = null
    /\ PROXY_PORT = <<>>
    /\ PROXY_URL = <<>>
    /\ TermIdle
    /\ CfgIdle
    /\ argv = <<<<"start">>>>
    /\ remote = FALSE
    /\ probeMs = {0, 1000, 2000}
    /\ CliFresh

NextWait ==
    \/ LoadConfig
    \/ StartBegin
    \/ StartProbed
    \/ StartSlept
    \/ StartPolled
    \/ StartDone

SpecWait == InitWait /\ [][NextWait]_vars

\* C16: when no probe is ever healthy, the wait reports its timeout after exactly
\* 15 x 1000 ms of elapsed time, whatever time the individual probes took
C16_TimeoutAfterExactlyAttemptsTimesInterval ==
    (FirstArg = <<"start">> /\ TimedOut) => waited = StartAttempts * 1000

\* what the code does instead: the time of every probe adds to the 15 sleeps
C16_ElapsedIsSleepsPlusProbes ==
    (FirstArg = <<"start">> /\ TimedOut) =>
        /\ waited >= StartAttempts * 1000
        /\ waited <= StartAttempts * (1000 + 2000)

\* the slowest timed-out wait: every probe ran into its 2000 ms timeout
C16_SlowestWait ==
    FirstArg = <<"start">> /\ TimedOut /\ waited = StartAttempts * (1000 + 2000)

--------------------------------------------------------------------------
(* The proxy process and the exit of the CLI *)

\* `start` spawned a proxy of its own and holds its handle, with a pid
ProxyTracked == childProcesses = <<[pid |-> TRUE]>>

\* C17 as stated: on no exit path of the CLI does its exit send a termination
\* signal to the proxy that `start` started
C17_ExitNeverSignalsProxy ==
    (FirstArg = <<"start">> /\ Exited /\ ProxyTracked) => sigterms = 0

\* C17, amended: the proxy is spawned detached and is the only process tracked,
\* no signal is sent while the CLI runs, and every exit of the CLI sends SIGTERM
\* to the process group of a tracked proxy that has a pid: once from the 'exit'
\* handler, and once more from the handler of a SIGTERM or SIGINT
C17_EveryExitSignalsTrackedProxy ==
    /\ childProcesses # <<>> => (Len(childProcesses) = 1 /\ ProxySpawned /\ FirstArg = <<"start">>)
    /\ \A i \in 1..Len(spawned) : spawned[i].detached <=> spawned[i].args = <<<<"PROXY_DIR/src/index.js">>>>
    /\ ~Exited => sigterms = 0
    /\ (Exited /\ ProxyTracked) => sigterms = (IF signalled THEN 2 ELSE 1)
    /\ (Exited /\ ~ProxyTracked) => sigterms = 0

\* the claude session ended normally and the CLI, on its way out, signalled the proxy
C17_Witness ==
    /\ FirstArg = <<"start">>
    /\ Exited
    /\ ~signalled
    /\ childExit = "exit0"
    /\ ProxyTracked
    /\ sigterms = 1
    /\ exitCode = 0

--------------------------------------------------------------------------
(* The prober functions, called on their own *)

\* a call completed by returning v
Return(v) == [done |-> TRUE, threw |-> FALSE, val |-> v]

\* fetch(`${PROXY_URL}${path}`, ...) issued and not yet settled
Fetch(path) ==
    [url |-> PROXY_URL \o <<path>>, outcome |-> [kind |-> "pending", status |-> 0, body |-> JNull]]

\* the bug a mutant plants: no try / catch, a rejected fetch reaches the caller
isProxyRunning_nocatch(outcome) ==
    IF outcome.kind \in {"error", "timeout"}
    THEN [done |-> TRUE, threw |-> TRUE, val |-> JUndefined]
    ELSE Return(JBool(outcome.status \in 200..299))

\* isProxyRunning(): response.ok, and false when the fetch rejects
isProxyRunning(outcome) ==
    IF outcome.kind \in {"error", "timeout"}
    THEN Return(JBool(FALSE))
    ELSE Return(JBool(outcome.status \in 200..299))

InitProbe ==
    /\ pc = "load"
    /\ entry = "cli"
    /\ envPort \in CfgPorts
    /\ sanitized = null
    /\ PROXY_PORT = <<>>
    /\ PROXY_URL = <<>>
    /\ TermIdle
    /\ CfgIdle
    /\ CliIdle

\* one of the three functions is called; its fetches are issued before it suspends
CallProber ==
    /\ pc = "main"
    /\ called = "none"
    /\ \E fn \in {"isProxyRunning", "getProxyStatus", "getModels"} :
          /\ called' = fn
          /\ requests' = CASE fn = "isProxyRunning" -> <<Fetch("/health")>>
                           [] fn = "getProxyStatus" -> <<Fetch("/health"), Fetch("/account-limits")>>
                           [] OTHER -> <<Fetch("/v1/models")>>
    /\ pc' = "probe.wait"
    /\ UNCHANGED <<portVars, termVars, cfgVars, argv, remote, terminal, spawned, shellCmds, probes, attempt,
                   childProcesses, proxyEvents, sigterms, fetched, childExit, signalled, probeMs, waited,
                   returned, exitCode>>

\* the fetch of isProxyRunning settles and the function returns
isProxyRunningSettled ==
    /\ pc = "probe.wait"
    /\ called = "isProxyRunning"
    /\ \E outcome \in Outcomes(HealthBodies) :
          /\ requests' = [requests EXCEPT ![1].outcome = outcome]
          /\ returned' = isProxyRunning(outcome)
    /\ pc' = "probe.returned"
    /\ UNCHANGED <<portVars, termVars, cfgVars, argv, remote, terminal, spawned, shellCmds, probes, attempt,
                   childProcesses, proxyEvents, sigterms, fetched, childExit, signalled, probeMs, waited,
                   called, exitCode>>

\* one of the two fetches of getProxyStatus settles. Promise.all rejects as soon as
\* the /health promise does, and the function returns null then; otherwise it
\* returns when both have settled. An answer to /account-limits that arrives after
\* the return changes nothing.
getProxyStatusSettled ==
    /\ pc \in {"probe.wait", "probe.returned"}
    /\ called = "getProxyStatus"
    /\ \E i \in 1..2 :
          /\ requests[i].outcome.kind = "pending"
          /\ \E outcome \in Outcomes(IF i = 1 THEN HealthBodies ELSE LimitsBodies) :
                LET after  == [requests EXCEPT ![i].outcome = outcome]
                    health == after[1].outcome
                    limits == after[2].outcome
                IN  /\ requests' = after
                    /\ IF returned.done
                       THEN UNCHANGED <<pc, returned>>
                       ELSE IF \/ health.kind \notin {"pending", "ok"}
                               \/ health.kind = "ok" /\ limits.kind # "pending"
                       THEN /\ returned' = Return(getProxyStatus(health, limits))
                            /\ pc' = "probe.returned"
                       ELSE UNCHANGED <<pc, returned>>
    /\ UNCHANGED <<portVars, termVars, cfgVars, argv, remote, terminal, spawned, shellCmds, probes, attempt,
                   childProcesses, proxyEvents, sigterms, fetched, childExit, signalled, probeMs, waited,
                   called, exitCode>>

\* the fetch of getModels settles and the function returns
getModelsSettled ==
    /\ pc = "probe.wait"
    /\ called = "getModels"
    /\ \E outcome \in Outcomes(ModelsBodies) :
          /\ requests' = [requests EXCEPT ![1].outcome = outcome]
          /\ returned' = Return(getModels(outcome))
          /\ terminal' = terminal \o (IF outcome.kind = "http"
                                      THEN <<warn(<<"Models endpoint returned HTTP ">>
                                                  \o String(outcome.status))>>
                                      ELSE <<>>)
    /\ pc' = "probe.returned"
    /\ UNCHANGED <<portVars, termVars, cfgVars, argv, remote, spawned, shellCmds, probes, attempt,
                   childProcesses, proxyEvents, sigterms, fetched, childExit, signalled, probeMs, waited,
                   called, exitCode>>

NextProbe ==
    \/ LoadConfig
    \/ CallProber
    \/ isProxyRunningSettled
    \/ getProxyStatusSettled
    \/ getModelsSettled

SpecProbe == InitProbe /\ [][NextProbe]_vars

\* C18: no prober function raises; isProxyRunning returns a boolean, true only when
\* /health answered with a 2xx status before the timeout; getProxyStatus and
\* getModels return a value or null; isProxyRunning issues exactly one request
C18_ProbersNeverRaise ==
    /\ ~returned.threw
    /\ returned.done => returned.val # JUndefined
    /\ called = "isProxyRunning" =>
          /\ Len(requests) = 1
          /\ requests[1].url = PROXY_URL \o <<"/health">>
          /\ returned.done =>
                /\ returned.val \in {JBool(TRUE), JBool(FALSE)}
                /\ returned.val = JBool(TRUE) =>
                      /\ requests[1].outcome.kind \in {"ok", "badjson", "http"}
                      /\ requests[1].outcome.status \in 200..299
    /\ (called = "getModels" /\ returned.done) =>
          (returned.val = JNull \/ requests[1].outcome = [kind |-> "ok", status |-> 200, body |-> returned.val])

\* a probe that ran into its timeout: false, not an exception
C18_Witness ==
    /\ called = "isProxyRunning"
    /\ requests[1].outcome.kind = "timeout"
    /\ returned = Return(JBool(FALSE))

\* a 2xx answer whose body is not JSON: true for isProxyRunning, null for getModels
C18_WitnessBadBody ==
    /\ called = "getModels"
    /\ requests[1].outcome.kind = "badjson"
    /\ returned = Return(JNull)

\* the two requests of a getProxyStatus call
HealthRequest == requests[1].outcome
LimitsRequest == requests[2].outcome

\* a request that settled without a parsed 2xx body: error, timeout, non-2xx, unparsable
Failed(outcome) == outcome.kind \in {"error", "timeout", "http", "badjson"}

\* C19 as stated: getProxyStatus returns null exactly when /health failed, and
\* otherwise {health, limits} with limits null exactly when /account-limits failed
C19_LimitsNullIffLimitsFailed ==
    (called = "getProxyStatus" /\ returned.done) =>
        /\ returned.val = JNull <=> Failed(HealthRequest)
        /\ returned.val # JNull =>
              /\ Get(returned.val, "health") = HealthRequest.body
              /\ Get(returned.val, "limits") = JNull <=> Failed(LimitsRequest)

\* C19, amended: both requests are issued at the call; the call returns null exactly
\* when /health failed, at once and without waiting for /account-limits; otherwise
\* it returns, once both have settled, {health, limits} with the parsed /health
\* body and with limits the parsed /account-limits body, or null when that request
\* failed. A failure of /account-limits alone never makes the call return null.
C19_NullIffHealthFailed ==
    called = "getProxyStatus" =>
        /\ Len(requests) = 2
        /\ requests[1].url = PROXY_URL \o <<"/health">>
        /\ requests[2].url = PROXY_URL \o <<"/account-limits">>
        /\ returned.done <=> (Failed(HealthRequest) \/ (HealthRequest.kind = "ok" /\ LimitsRequest.kind # "pending"))
        /\ returned.done =>
              /\ ~returned.threw
              /\ returned.val = JNull <=> Failed(HealthRequest)
              /\ returned.val # JNull =>
                    /\ returned.val = JObj(<< <<"health", HealthRequest.body>>,
                                              <<"limits", Get(returned.val, "limits")>> >>)
                    /\ Failed(LimitsRequest) => Get(returned.val, "limits") = JNull
                    /\ LimitsRequest.kind = "ok" => Get(returned.val, "limits") = LimitsRequest.body

\* /account-limits alone failed, after /health had answered: limits is null, the call is not
C19_Witness ==
    /\ called = "getProxyStatus"
    /\ HealthRequest = [kind |-> "ok", status |-> 200, body |-> JObj(<<>>)]
    /\ LimitsRequest.kind = "timeout"
    /\ returned = Return(JObj(<< <<"health", JObj(<<>>)>>, <<"limits", JNull>> >>))

\* /health failed while /account-limits was still in flight: null at once
C19_WitnessEarlyNull ==
    /\ called = "getProxyStatus"
    /\ HealthRequest.kind = "http"
    /\ LimitsRequest.kind = "pending"
    /\ returned = Return(JNull)

--------------------------------------------------------------------------
(* The exit of `status` *)

\* C20: `status` always ends with exit code 0 after printing its report, whatever
\* the proxy answers and whatever the settings file holds; no exception escapes
C20_StatusAlwaysExitsZero ==
    (FirstArg = <<"status">> /\ Exited) =>
        /\ exitCode = 0
        /\ \A i \in 1..Len(terminal) : terminal[i] # Uncaught

\* where the code departs from it: only a null item among the accounts of
\* /account-limits, whose `acc.email` raises
C20_OnlyNullAccountRaises ==
    (FirstArg = <<"status">> /\ Exited /\ exitCode # 0) =>
        /\ exitCode = 1
        /\ terminal[Len(terminal)] = Uncaught
        /\ IsArray(Get(fetched, "limits"))
        /\ \E i \in 1..Len(Get(fetched, "limits").jv) : Nullish(Get(fetched, "limits").jv[i])

C20_NullAccountRaised ==
    /\ FirstArg = <<"status">>
    /\ Exited
    /\ Get(fetched, "limits") = JArr(<<Account(JNum(5), JNull), JNull>>)
    /\ exitCode = 1

--------------------------------------------------------------------------
(* The managed proxy process *)

\* the terminal outcomes cmdStart and the handlers of startProxy have reported for
\* the proxy this invocation spawned: Healthy (a probe of the wait loop succeeded),
\* TimedOut (the loop ran out), Failed (the 'error' handler ran)
ProxyOutcomes ==
    (IF ProxySpawned /\ \E i \in 1..Len(WaitProbes) : WaitProbes[i] THEN {"Healthy"} ELSE {})
        \cup (IF TimedOut THEN {"TimedOut"} ELSE {})
        \cup (IF \E i \in 1..Len(proxyEvents) : proxyEvents[i] = "error" THEN {"Failed"} ELSE {})

\* the parts of C21 about the registry and the spawn
SpawnedOnceByStart ==
    /\ Len(childProcesses) <= 1
    /\ Cardinality({i \in 1..Len(spawned) : spawned[i].detached}) <= 1
    /\ ProxySpawned => (FirstArg = <<"start">> /\ probes # <<>> /\ ~probes[1])
    /\ ProxyOutcomes # {} => ProxySpawned

\* C21: at most one handle is tracked, the proxy is spawned at most once, only by
\* `start` and only after a first probe found no proxy, and the managed process
\* moves NotStarted -> Starting -> one of Healthy, TimedOut, Failed, never leaving
\* the outcome it reached
C21_OneProxyOneOutcome ==
    /\ SpawnedOnceByStart
    /\ Cardinality(ProxyOutcomes) <= 1

\* what holds of the code: the spawn part, and a Healthy or TimedOut outcome is final
C21_HealthyAndTimedOutExclude ==
    /\ SpawnedOnceByStart
    /\ ~({"Healthy", "TimedOut"} \subseteq ProxyOutcomes)

\* the proxy failed to spawn and the wait went on to its timeout
C21_FailedThenTimedOut ==
    /\ ProxyOutcomes = {"TimedOut", "Failed"}
    /\ childProcesses = <<[pid |-> FALSE]>>
    /\ exitCode = 1

\* the proxy failed to spawn and claude was launched all the same
C21_FailedThenHealthy ==
    /\ ProxyOutcomes = {"Healthy", "Failed"}
    /\ ClaudeSpawned

--------------------------------------------------------------------------
(* Which flows write the configuration files *)

configFiles == <<configDir, settingsFile, settingsMode, claudeJsonFile, claudeJsonMode>>

\* C22: the settings file and the onboarding file are modified only by `start` and
\* by a `login` whose accounts process exited with code 0; `status`, `models`,
\* `accounts`, help, an unknown command and every other `login` leave them alone
C22_OnlyStartAndLinkedLoginWrite ==
    /\ [][configFiles' # configFiles =>
              \/ Command = <<"start">> /\ pc = "main"
              \/ Command = <<"login">> /\ pc = "login.wait" /\ childExit' = "exit0"]_vars
    /\ [](cfgRuns > 0 =>
              \/ Command = <<"start">>
              \/ Command = <<"login">> /\ childExit = "exit0")
    /\ []((Command = <<"login">> /\ Exited /\ cfgRuns > 0) =>
              (\E i \in 1..Len(spawned) : spawned[i].args[1] = AccountsScript))

\* a login whose accounts process exited with 1 has left the files alone
C22_Witness ==
    /\ Command = <<"login">>
    /\ Exited
    /\ childExit = "exit1"
    /\ cfgRuns = 0
    /\ settingsFile = null

\* and a login whose accounts process exited with 0 has written the settings file
C22_WitnessWritten ==
    /\ Command = <<"login">>
    /\ Exited
    /\ childExit = "exit0"
    /\ cfgBefore[1] = null
    /\ settingsFile # null

--------------------------------------------------------------------------
(* configureClaudeSettings, run again *)

\* C23: under a fixed port a second run of configureClaudeSettings finds the files
\* as the first run left them and leaves them with exactly that content, and it
\* does not write the onboarding file
C23_SecondRunChangesNothing ==
    cfgRuns >= 2 =>
        /\ settingsFile = cfgBefore[1]
        /\ claudeJsonFile = cfgBefore[2]
        /\ ~wroteClaudeJson

\* two runs over a settings file with a foreign env member and an onboarding file
\* whose flag the first run had to set
C23_Witness ==
    /\ cfgRuns = 2
    /\ settingsFile.ok
    /\ Get(Get(ParseTree(settingsFile.val), "env"), "FOO") = JStr(<<"old">>)
    /\ Get(Get(ParseTree(settingsFile.val), "env"), "ANTHROPIC_BASE_URL") = JStr(PROXY_URL)
    /\ claudeJsonFile = Some(JObj(<<UserId, Flag(JBool(TRUE))>>))
    /\ ~wroteClaudeJson

====
